---- MODULE Spec2Model ----
(***************************************************************************)
(* The goal/log store of the resolution tracker (resolutions/storage.py,   *)
(* resolutions/models.py): one JSON file, a process-wide cache of the      *)
(* parsed document keyed by the file's modification time, and the CRUD     *)
(* operations over goals, logs and the configuration.                      *)
(***************************************************************************)
EXTENDS Integers, Sequences, FiniteSets, TLC

\* add_goal is offered while next_goal_id <= MaxGoalId, add_log while
\* next_log_id <= MaxLogId, and the clock stops at MaxClock.
MaxGoalId == 2
MaxLogId == 2
MaxClock == 2

\* the number of _do_add and _do_log calls the dashboard makes
MaxWorkerCalls == 3

VARIABLES
  file_exists,        \* data.json is present
  file_text,          \* its content: <<>> (no text) or <<json document>>
  file_mtime,         \* its st_mtime
  cache,              \* _cache: <<>> (None) or <<DataStore>>
  cache_mtime,        \* _cache_mtime
  now,                \* the clock read by datetime.now() and by the file system
  last_call,          \* the store function that ran last, its arguments, its outcome
  goal_ids_assigned,  \* history: the ids add_goal handed out, in order
  log_ids_assigned,   \* history: the ids add_log handed out, in order
  heap,               \* the DataStore objects the TUI's threads hold references to
  cache_ref,          \* which object of heap _cache is (0: none is)
  pc,                 \* where each TUI worker thread stands
  loc                 \* each worker's local variables

\* The TUI's worker threads share DataStore objects, so their specification
\* (SpecWorkers) keeps the objects in heap and cache = <<heap[cache_ref]>>.
\* The other specifications run one thread and leave worker_vars alone.
worker_vars == <<heap, cache_ref, pc, loc>>

vars == <<file_exists, file_text, file_mtime, cache, cache_mtime, now,
          last_call, goal_ids_assigned, log_ids_assigned, heap, cache_ref, pc, loc>>

-----------------------------------------------------------------------------
(* Sequence helpers standing for Python's list comprehensions.             *)

\* the least index i with s[i].id = id, 0 when there is none
RECURSIVE IndexFrom(_, _, _)
IndexFrom(s, id, i) ==
  IF i > Len(s) THEN 0
  ELSE IF s[i].id = id THEN i
  ELSE IndexFrom(s, id, i + 1)

-----------------------------------------------------------------------------
(* models.py                                                               *)

Goal(id, title, category, target, created_at, priority, emoji) ==
  [id |-> id, title |-> title, category |-> category, target |-> target,
   created_at |-> created_at, priority |-> priority, emoji |-> emoji]

\* Field(default=3, ge=1, le=10)
PriorityOk(p) == p >= 1 /\ p <= 10

LogEntry(id, goal_id, raw_input, parsed_update, value, unit, timestamp, sentiment) ==
  [id |-> id, goal_id |-> goal_id, raw_input |-> raw_input,
   parsed_update |-> parsed_update, value |-> value, unit |-> unit,
   timestamp |-> timestamp, sentiment |-> sentiment]

Config ==
  [reminder_frequency |-> "daily", preferred_time |-> "09:00",
   ai_personality |-> "balanced"]

\* mutant: the counters of a new document start at 0
DataStore_counters_from_zero ==
  [goals |-> <<>>, logs |-> <<>>, config |-> Config,
   next_goal_id |-> 0, next_log_id |-> 0]

DataStore ==
  [goals |-> <<>>, logs |-> <<>>, config |-> Config,
   next_goal_id |-> 1, next_log_id |-> 1]

\* model_copy(update=kwargs): the fields named in kwargs take its values,
\* without validation; kwargs is a function from field names to values.
model_copy(obj, kwargs) ==
  [f \in DOMAIN obj |-> IF f \in DOMAIN kwargs THEN kwargs[f] ELSE obj[f]]

-----------------------------------------------------------------------------
(* Serialisation: model_dump(mode="json") writes datetimes as ISO strings  *)
(* and None as null; model_validate parses them back and validates.        *)

isoformat(t) == [iso |-> t]
fromisoformat(s) == s.iso

RECURSIVE dump_goals(_)
dump_goals(gs) ==
  IF gs = <<>> THEN <<>>
  ELSE <<[Head(gs) EXCEPT !.created_at = isoformat(@)]>> \o dump_goals(Tail(gs))

RECURSIVE dump_logs(_)
dump_logs(ls) ==
  IF ls = <<>> THEN <<>>
  ELSE <<[Head(ls) EXCEPT !.timestamp = isoformat(@)]>> \o dump_logs(Tail(ls))

model_dump(store) ==
  [store EXCEPT !.goals = dump_goals(@), !.logs = dump_logs(@)]

RECURSIVE validate_goals(_)
validate_goals(gs) ==
  IF gs = <<>> THEN <<>>
  ELSE <<[Head(gs) EXCEPT !.created_at = fromisoformat(@)]>> \o validate_goals(Tail(gs))

RECURSIVE validate_logs(_)
validate_logs(ls) ==
  IF ls = <<>> THEN <<>>
  ELSE <<[Head(ls) EXCEPT !.timestamp = fromisoformat(@)]>> \o validate_logs(Tail(ls))

\* DataStore.model_validate(data): <<>> stands for ValidationError
model_validate(data) ==
  IF \A i \in 1..Len(data.goals) : PriorityOk(data.goals[i].priority)
  THEN <<[data EXCEPT !.goals = validate_goals(@), !.logs = validate_logs(@)]>>
  ELSE <<>>

-----------------------------------------------------------------------------
(* storage.py                                                              *)

\* json.load(f): the file's text is one JSON document, or JSONDecodeError
\* (<<>>) when it is empty or holds anything else
json_load(text) == IF Len(text) = 1 THEN text ELSE <<>>

\* the document in the file as json.load reads it, before validation (the
\* document of a missing or unreadable file counts as a new one)
DiskStore ==
  IF file_exists /\ json_load(file_text) # <<>> THEN json_load(file_text)[1]
  ELSE model_dump(DataStore)

\* "Check if cache is still valid"
cache_valid == cache # <<>> /\ file_exists /\ file_mtime = cache_mtime

\* mutant: a cached document is returned without looking at the file
load_data_trusts_cache ==
  IF cache # <<>>
  THEN [raised |-> FALSE, store |-> cache[1], cache |-> cache,
        cache_mtime |-> cache_mtime]
  ELSE IF file_exists
  THEN LET parsed == IF json_load(file_text) = <<>> THEN <<>>
                     ELSE model_validate(json_load(file_text)[1])
       IN  IF parsed = <<>>
           THEN [raised |-> TRUE, store |-> DataStore, cache |-> cache,
                 cache_mtime |-> cache_mtime]
           ELSE [raised |-> FALSE, store |-> parsed[1], cache |-> parsed,
                 cache_mtime |-> file_mtime]
  ELSE [raised |-> FALSE, store |-> DataStore, cache |-> <<DataStore>>,
        cache_mtime |-> 0]

\* load_data(): what it returns (store), whether it raised, and the cache
\* it leaves behind. The store returned is always the cached object.
load_data ==
  IF cache_valid
  THEN [raised |-> FALSE, store |-> cache[1], cache |-> cache,
        cache_mtime |-> cache_mtime]
  ELSE IF file_exists
  THEN LET parsed == IF json_load(file_text) = <<>> THEN <<>>
                     ELSE model_validate(json_load(file_text)[1])
       IN IF parsed = <<>>
           THEN [raised |-> TRUE, store |-> DataStore, cache |-> cache,
                 cache_mtime |-> cache_mtime]
           ELSE [raised |-> FALSE, store |-> parsed[1], cache |-> parsed,
                 cache_mtime |-> file_mtime]
  ELSE [raised |-> FALSE, store |-> DataStore, cache |-> <<DataStore>>,
        cache_mtime |-> 0]

\* mutant: the file is written and the cache keeps the document it held
save_data_stale_cache(store) ==
  /\ file_exists' = TRUE
  /\ file_text' = <<model_dump(store)>>
  /\ file_mtime' = now
  /\ cache' = IF cache = <<>> THEN <<DataStore>> ELSE cache
  /\ cache_mtime' = file_mtime'

\* save_data(store)
save_data(store) ==
  /\ file_exists' = TRUE
  /\ file_text' = <<model_dump(store)>>
  /\ file_mtime' = now
  /\ cache' = <<store>>
  /\ cache_mtime' = file_mtime'

\* a call that left the file alone: load_data's effect on the cache remains,
\* and store is the (possibly mutated in place) cached object
NoSave(ld, store) ==
  /\ cache' = IF ld.raised THEN ld.cache ELSE <<store>>
  /\ cache_mtime' = ld.cache_mtime
  /\ UNCHANGED <<file_exists, file_text, file_mtime>>

Call(op, goal_id, kwargs, status) ==
  [op |-> op, goal_id |-> goal_id, kwargs |-> kwargs, status |-> status]

NoKwargs == [f \in {} |-> 0]

\* mutant: the counter is not advanced
append_goal_keeps_counter(store, goal) ==
  [store EXCEPT !.goals = Append(@, goal)]

\* store.goals.append(goal); store.next_goal_id += 1
append_goal(store, goal) ==
  [store EXCEPT !.goals = Append(@, goal), !.next_goal_id = @ + 1]

add_goal(title, category, target, priority, emoji) ==
  LET ld == load_data
      store == ld.store
      goal == Goal(store.next_goal_id, title, category, target, now, priority, emoji)
  IN  /\ store.next_goal_id <= MaxGoalId
      /\ Len(goal_ids_assigned) < MaxGoalId
      /\ IF ld.raised \/ ~PriorityOk(priority)
         THEN /\ NoSave(ld, store)
              /\ last_call' = Call("add_goal", 0, NoKwargs, "raised")
              /\ UNCHANGED goal_ids_assigned
         ELSE /\ save_data(append_goal(store, goal))
              /\ last_call' = Call("add_goal", goal.id, NoKwargs, "ok")
              /\ goal_ids_assigned' = Append(goal_ids_assigned, goal.id)
      /\ UNCHANGED <<now, log_ids_assigned, worker_vars>>

\* what a read returns in the current state: <<>> when load_data raises
get_goals_result == IF load_data.raised THEN <<>> ELSE load_data.store.goals

get_goal_result(goal_id) ==
  LET goals == load_data.store.goals
      i == IndexFrom(goals, goal_id, 1)
  IN  IF load_data.raised \/ i = 0 THEN <<>> ELSE <<goals[i]>>

\* [l for l in store.logs if l.goal_id == goal_id]
logs_of(logs, goal_id) == SelectSeq(logs, LAMBDA l : l.goal_id = goal_id)

\* goal_id = 0 stands for None
get_logs_result(goal_id) ==
  IF load_data.raised THEN <<>>
  ELSE IF goal_id # 0 THEN logs_of(load_data.store.logs, goal_id)
  ELSE load_data.store.logs

get_config_result == IF load_data.raised THEN <<>> ELSE <<load_data.store.config>>

\* the part of a read that changes state: load_data's refresh of the cache
\* (what the read returns is the *_result operator above)
Read(op, goal_id) ==
  LET ld == load_data
  IN  /\ NoSave(ld, ld.store)
      /\ UNCHANGED <<now, last_call, goal_ids_assigned, log_ids_assigned, worker_vars>>

get_goals == Read("get_goals", 0)

get_goal(goal_id) == Read("get_goal", goal_id)

get_logs(goal_id) == Read("get_logs", goal_id)

get_config == Read("get_config", 0)

\* mutant: the update is applied to every goal
replace_goal_everywhere(store, i, kwargs) ==
  [store EXCEPT !.goals = [j \in 1..Len(@) |-> model_copy(@[j], kwargs)]]

\* store.goals[i] = goal.model_copy(update=kwargs)
replace_goal(store, i, kwargs) ==
  [store EXCEPT !.goals[i] = model_copy(@, kwargs)]

update_goal(goal_id, kwargs) ==
  LET ld == load_data
      store == ld.store
      i == IndexFrom(store.goals, goal_id, 1)
  IN  /\ IF ld.raised \/ i = 0
         THEN /\ NoSave(ld, store)
              /\ last_call' = Call("update_goal", goal_id, kwargs,
                                   IF ld.raised THEN "raised" ELSE "none")
         ELSE /\ save_data(replace_goal(store, i, kwargs))
              /\ last_call' = Call("update_goal", goal_id, kwargs, "ok")
      /\ UNCHANGED <<now, goal_ids_assigned, log_ids_assigned, worker_vars>>

\* mutant: the goal's logs stay
drop_goal_keeps_logs(store, goal_id) ==
  [store EXCEPT !.goals = SelectSeq(@, LAMBDA g : g.id # goal_id)]

\* store.goals = [g ... if g.id != goal_id]; store.logs = [l ... if l.goal_id != goal_id]
drop_goal(store, goal_id) ==
  [store EXCEPT !.goals = SelectSeq(@, LAMBDA g : g.id # goal_id),
                !.logs = SelectSeq(@, LAMBDA l : l.goal_id # goal_id)]

remove_goal(goal_id) ==
  LET ld == load_data
      store == ld.store
      after == drop_goal(store, goal_id)
  IN  /\ IF ld.raised
         THEN /\ NoSave(ld, store)
              /\ last_call' = Call("remove_goal", goal_id, NoKwargs, "raised")
         ELSE IF Len(after.goals) < Len(store.goals)
         THEN /\ save_data(after)
              /\ last_call' = Call("remove_goal", goal_id, NoKwargs, "true")
         ELSE /\ NoSave(ld, after)
              /\ last_call' = Call("remove_goal", goal_id, NoKwargs, "false")
      /\ UNCHANGED <<now, goal_ids_assigned, log_ids_assigned, worker_vars>>

\* mutant: the counter is not advanced
append_log_keeps_counter(store, log) ==
  [store EXCEPT !.logs = Append(@, log)]

\* store.logs.append(log); store.next_log_id += 1
append_log(store, log) ==
  [store EXCEPT !.logs = Append(@, log), !.next_log_id = @ + 1]

\* mutant: the goal is not looked up
goal_exists_unchecked(store, goal_id) == TRUE

\* any(g.id == goal_id for g in store.goals)
goal_exists(store, goal_id) == IndexFrom(store.goals, goal_id, 1) # 0

add_log(goal_id, raw_input, parsed_update, value, unit, sentiment) ==
  LET ld == load_data
      store == ld.store
      log == LogEntry(store.next_log_id, goal_id, raw_input, parsed_update,
                      value, unit, now, sentiment)
  IN  /\ store.next_log_id <= MaxLogId
      /\ Len(log_ids_assigned) < MaxLogId
      /\ IF ld.raised \/ ~goal_exists(store, goal_id)
         THEN /\ NoSave(ld, store)
              /\ last_call' = Call("add_log", goal_id, NoKwargs,
                                   IF ld.raised THEN "raised" ELSE "none")
              /\ UNCHANGED log_ids_assigned
         ELSE /\ save_data(append_log(store, log))
              /\ last_call' = Call("add_log", goal_id, NoKwargs, "ok")
              /\ log_ids_assigned' = Append(log_ids_assigned, log.id)
      /\ UNCHANGED <<now, goal_ids_assigned, worker_vars>>

update_config(kwargs) ==
  LET ld == load_data
      store == ld.store
  IN  /\ IF ld.raised
         THEN /\ NoSave(ld, store)
              /\ last_call' = Call("update_config", 0, kwargs, "raised")
         ELSE /\ save_data([store EXCEPT !.config = model_copy(@, kwargs)])
              /\ last_call' = Call("update_config", 0, kwargs, "ok")
      /\ UNCHANGED <<now, goal_ids_assigned, log_ids_assigned, worker_vars>>

-----------------------------------------------------------------------------
(* The environment of the store functions.                                 *)

\* time passes
Tick ==
  /\ now < MaxClock
  /\ now' = now + 1
  /\ UNCHANGED <<file_exists, file_text, file_mtime, cache, cache_mtime,
                 last_call, goal_ids_assigned, log_ids_assigned, worker_vars>>

\* a new invocation of the program: the module globals start over
NewProcess ==
  /\ cache # <<>>
  /\ cache' = <<>>
  /\ cache_mtime' = 0
  /\ last_call' = Call("start", 0, NoKwargs, "ok")
  /\ UNCHANGED <<file_exists, file_text, file_mtime, now,
                 goal_ids_assigned, log_ids_assigned, worker_vars>>

\* another invocation of the program (res add --no-ai) adds a goal to the
\* file while this process keeps its cache
other_process_add_goal(title) ==
  LET theirs == model_validate(DiskStore)[1]
      goal == Goal(theirs.next_goal_id, title, "general", "", now, 3, "")
  IN  /\ theirs.next_goal_id <= MaxGoalId
      /\ file_exists' = TRUE
      /\ file_text' = <<model_dump(append_goal(theirs, goal))>>
      /\ file_mtime' = now
      /\ UNCHANGED <<cache, cache_mtime, now, last_call, goal_ids_assigned,
                     log_ids_assigned, worker_vars>>

\* os.remove(data_file) by another invocation (dashboard --demo) or by the user
os_remove ==
  /\ file_exists
  /\ file_exists' = FALSE
  /\ file_text' = <<>>
  /\ file_mtime' = 0
  /\ UNCHANGED <<cache, cache_mtime, now, last_call, goal_ids_assigned,
                 log_ids_assigned, worker_vars>>


-----------------------------------------------------------------------------
(* app.py: _do_add and _do_log run in worker threads (@work(thread=True)),  *)
(* several at a time; each line of storage.py they run is a step, and the  *)
(* DataStore objects they hold are shared through _cache.                  *)

Workers == {1, 2}

\* the locals of a worker: the arguments of the storage call, whether it is
\* in its except block, the store it loaded, the object it built
NoLocals ==
  [kind |-> "", args |-> <<>>, fallback |-> FALSE, ref |-> 0, new |-> <<>>,
   tmp |-> 0, first |-> 0, gid |-> 0, done |-> 0]

HeapSlots == 1..(Cardinality(Workers) + 1)

\* the objects a thread or _cache still refers to; the others are collected
Collect(h, r, l) ==
  [s \in HeapSlots |-> IF s = r \/ \E v \in Workers : l[v].ref = s THEN h[s]
                       ELSE DataStore]

\* one step of worker w: its next position and locals, the heap and _cache
Step(w, label, locals, h, r) ==
  /\ pc' = [pc EXCEPT ![w] = label]
  /\ loc' = [loc EXCEPT ![w] = locals]
  /\ heap' = Collect(h, r, loc')
  /\ cache_ref' = r
  /\ cache' = IF r = 0 THEN <<>> ELSE <<h[r]>>

DefaultGoalArgs == [category |-> "general", target |-> "", priority |-> 3, emoji |-> ""]

\* storage.add_log(goal.id, text, text)
DefaultLogArgs ==
  [parsed_update |-> "ran 3 miles", value |-> <<>>, unit |-> "", sentiment |-> "neutral"]

\* an exception in the try block runs the except block, which calls
\* storage.add_goal(title) or storage.add_log(goals[0].id, text, text); an
\* exception in the except block ends the worker
except_block(w) ==
  IF loc[w].fallback
  THEN [pc |-> "failed", loc |-> NoLocals]
  ELSE [pc |-> "load",
        loc |-> [NoLocals EXCEPT !.kind = loc[w].kind,
                                 !.fallback = TRUE,
                                 !.args = <<IF loc[w].kind = "goal" THEN DefaultGoalArgs
                                            ELSE DefaultLogArgs>>,
                                 !.first = loc[w].first,
                                 !.gid = loc[w].first,
                                 !.done = loc[w].done]]

\* load_data() in thread w: ref is the object returned, 0 when it raised
thread_load(w) ==
  LET free == CHOOSE s \in HeapSlots :
                /\ \A v \in Workers \ {w} : loc[v].ref # s
                /\ \A t \in HeapSlots :
                     (\A v \in Workers \ {w} : loc[v].ref # t) => s <= t
  IN  IF cache_valid
      THEN [ref |-> cache_ref, heap |-> heap, cache_ref |-> cache_ref,
            cache_mtime |-> cache_mtime]
      ELSE IF load_data.raised
      THEN [ref |-> 0, heap |-> heap, cache_ref |-> cache_ref,
            cache_mtime |-> cache_mtime]
      ELSE [ref |-> free, heap |-> [heap EXCEPT ![free] = load_data.store],
            cache_ref |-> free, cache_mtime |-> load_data.cache_mtime]

FileSame == UNCHANGED <<file_exists, file_text, file_mtime>>

HistorySame == UNCHANGED <<last_call, goal_ids_assigned, log_ids_assigned>>

\* action_add / action_log and the AI call: analysis is what the AI
\* returned, ai_ok whether the call returned at all
worker_start(w, kind, analysis, ai_ok) ==
  /\ pc[w] \in {"idle", "failed"}
  /\ IF kind = "goal" THEN Len(goal_ids_assigned) < MaxGoalId
                      ELSE Len(log_ids_assigned) < MaxLogId
  /\ Len(goal_ids_assigned) + Len(log_ids_assigned)
       + Cardinality({v \in Workers : pc[v] \notin {"idle", "failed"}}) < MaxWorkerCalls
  /\ Step(w, IF kind = "goal" THEN "load" ELSE "goals",
          [NoLocals EXCEPT !.kind = kind,
                           !.fallback = ~ai_ok,
                           !.args = <<IF ai_ok THEN analysis
                                      ELSE IF kind = "goal" THEN DefaultGoalArgs
                                      ELSE DefaultLogArgs>>],
          heap, cache_ref)
  /\ UNCHANGED <<cache_mtime, now>>
  /\ FileSame /\ HistorySame

\* _do_log: goals = storage.get_goals(); if not goals: ... return
worker_goals(w) ==
  LET ld == thread_load(w)
  IN  /\ pc[w] = "goals"
      /\ cache_mtime' = ld.cache_mtime
      /\ IF ld.ref = 0 THEN Step(w, "failed", NoLocals, ld.heap, ld.cache_ref)
         ELSE IF ld.heap[ld.ref].goals = <<>>
         THEN Step(w, "idle", NoLocals, ld.heap, ld.cache_ref)
         ELSE Step(w, IF loc[w].fallback THEN "load" ELSE "lookup",
                   [loc[w] EXCEPT !.first = ld.heap[ld.ref].goals[1].id,
                                  !.gid = ld.heap[ld.ref].goals[1].id],
                   ld.heap, ld.cache_ref)
      /\ UNCHANGED now /\ FileSame /\ HistorySame

\* _do_log: goal = storage.get_goal(analysis.goal_id) or goals[0]
worker_lookup(w) ==
  LET ld == thread_load(w)
      ex == except_block(w)
  IN  /\ pc[w] = "lookup"
      /\ cache_mtime' = ld.cache_mtime
      /\ IF ld.ref = 0 THEN Step(w, ex.pc, ex.loc, ld.heap, ld.cache_ref)
         ELSE Step(w, "load",
                   [loc[w] EXCEPT !.gid =
                      IF goal_exists(ld.heap[ld.ref], loc[w].args[1].goal_id)
                      THEN loc[w].args[1].goal_id ELSE loc[w].first],
                   ld.heap, ld.cache_ref)
      /\ UNCHANGED now /\ FileSame /\ HistorySame

\* add_goal / add_log: store = load_data(); add_log returns None when the
\* goal is not in store.goals
worker_load(w) ==
  LET ld == thread_load(w)
      ex == except_block(w)
  IN  /\ pc[w] = "load"
      /\ cache_mtime' = ld.cache_mtime
      /\ IF ld.ref = 0 THEN Step(w, ex.pc, ex.loc, ld.heap, ld.cache_ref)
         ELSE IF loc[w].kind = "log" /\ ~goal_exists(ld.heap[ld.ref], loc[w].gid)
         THEN Step(w, "refresh", loc[w], ld.heap, ld.cache_ref)
         ELSE Step(w, "make", [loc[w] EXCEPT !.ref = ld.ref], ld.heap, ld.cache_ref)
      /\ UNCHANGED now /\ FileSame /\ HistorySame

\* goal = Goal(id=store.next_goal_id, ...) / log = LogEntry(id=store.next_log_id, ...)
worker_make(w) ==
  LET store == heap[loc[w].ref]
      a == loc[w].args[1]
      ex == except_block(w)
  IN  /\ pc[w] = "make"
      /\ IF loc[w].kind = "goal"
         THEN IF PriorityOk(a.priority)
              THEN /\ Step(w, "append",
                           [loc[w] EXCEPT !.new =
                              <<Goal(store.next_goal_id, "Run 3x/week", a.category,
                                     a.target, now, a.priority, a.emoji)>>,
                                          !.done = @ + 1],
                           heap, cache_ref)
                   /\ goal_ids_assigned' = Append(goal_ids_assigned, store.next_goal_id)
                   /\ UNCHANGED log_ids_assigned
              ELSE /\ Step(w, ex.pc, ex.loc, heap, cache_ref)
                   /\ UNCHANGED <<goal_ids_assigned, log_ids_assigned>>
         ELSE /\ Step(w, "append",
                      [loc[w] EXCEPT !.new =
                         <<LogEntry(store.next_log_id, loc[w].gid, "ran 3 miles",
                                    a.parsed_update, a.value, a.unit, now, a.sentiment)>>,
                                     !.done = @ + 1],
                      heap, cache_ref)
              /\ log_ids_assigned' = Append(log_ids_assigned, store.next_log_id)
              /\ UNCHANGED goal_ids_assigned
      /\ UNCHANGED <<cache_mtime, now, last_call>>
      /\ FileSame

\* store.goals.append(goal) / store.logs.append(log)
worker_append(w) ==
  LET r == loc[w].ref
  IN  /\ pc[w] = "append"
      /\ Step(w, "incr_read", [loc[w] EXCEPT !.new = <<>>],
              [heap EXCEPT ![r] =
                 IF loc[w].kind = "goal"
                 THEN [@ EXCEPT !.goals = Append(@, loc[w].new[1])]
                 ELSE [@ EXCEPT !.logs = Append(@, loc[w].new[1])]],
              cache_ref)
      /\ UNCHANGED <<cache_mtime, now>> /\ FileSame /\ HistorySame

\* store.next_goal_id += 1 / store.next_log_id += 1: the attribute is read ...
worker_incr_read(w) ==
  LET store == heap[loc[w].ref]
  IN  /\ pc[w] = "incr_read"
      /\ Step(w, "incr_write",
              [loc[w] EXCEPT !.tmp = IF loc[w].kind = "goal" THEN store.next_goal_id
                                     ELSE store.next_log_id],
              heap, cache_ref)
      /\ UNCHANGED <<cache_mtime, now>>
      /\ FileSame /\ HistorySame

\* ... and written back one higher
worker_incr_write(w) ==
  LET r == loc[w].ref
  IN  /\ pc[w] = "incr_write"
      /\ Step(w, "open", [loc[w] EXCEPT !.tmp = 0],
              [heap EXCEPT ![r] =
                 IF loc[w].kind = "goal"
                 THEN [@ EXCEPT !.next_goal_id = loc[w].tmp + 1]
                 ELSE [@ EXCEPT !.next_log_id = loc[w].tmp + 1]],
              cache_ref)
      /\ UNCHANGED <<cache_mtime, now>> /\ FileSame /\ HistorySame

\* save_data: open(data_file, "w") truncates the file
worker_open(w) ==
  /\ pc[w] = "open"
  /\ file_exists' = TRUE
  /\ file_text' = <<>>
  /\ file_mtime' = now
  /\ Step(w, "write", loc[w], heap, cache_ref)
  /\ UNCHANGED <<cache_mtime, now>> /\ HistorySame

\* the text of a file after text is written at its start: what was there
\* beyond the new text stays
overwrite(old, text) ==
  IF Len(old) = 1 /\ Len(old[1].goals) + Len(old[1].logs)
                       > Len(text[1].goals) + Len(text[1].logs)
  THEN text \o old
  ELSE text

\* save_data: json.dump(store.model_dump(mode="json"), f) and the close of f
worker_write(w) ==
  /\ pc[w] = "write"
  /\ file_exists' = TRUE
  /\ file_text' = overwrite(file_text, <<model_dump(heap[loc[w].ref])>>)
  /\ file_mtime' = now
  /\ Step(w, "set_cache", loc[w], heap, cache_ref)
  /\ UNCHANGED <<cache_mtime, now>> /\ HistorySame

\* save_data: _cache = store; _cache_mtime = data_file.stat().st_mtime
worker_set_cache(w) ==
  /\ pc[w] = "set_cache"
  /\ Step(w, "refresh", [loc[w] EXCEPT !.ref = 0], heap, loc[w].ref)
  /\ cache_mtime' = file_mtime
  /\ UNCHANGED now /\ FileSame /\ HistorySame

\* self.call_from_thread(self._refresh_display): get_goals() and get_logs()
\* on the main thread; what they raise reaches the worker
worker_refresh(w) ==
  LET ld == thread_load(w)
      ex == except_block(w)
  IN  /\ pc[w] = "refresh"
      /\ cache_mtime' = ld.cache_mtime
      /\ IF ld.ref = 0 THEN Step(w, ex.pc, ex.loc, ld.heap, ld.cache_ref)
         ELSE Step(w, "idle", NoLocals, ld.heap, ld.cache_ref)
      /\ UNCHANGED now /\ FileSame /\ HistorySame

\* self.call_from_thread(self._refresh_display) or the _add_chat after it
\* raises in the main thread (query_one finds no widget while another screen
\* is shown, the app is closing): the exception reaches the worker's try
worker_refresh_raises(w) ==
  LET ex == except_block(w)
  IN  /\ pc[w] = "refresh"
      /\ Step(w, ex.pc, ex.loc, heap, cache_ref)
      /\ UNCHANGED <<cache_mtime, now>> /\ FileSame /\ HistorySame

-----------------------------------------------------------------------------
(* Inputs.                                                                 *)

Titles == {"Run 3x/week"}

\* add_goal(title) with its defaults, add_goal(title, analysis...) with an
\* analysis whose priority is valid, and with one whose priority is not
GoalArgs ==
  { [category |-> "general", target |-> "", priority |-> 3, emoji |-> ""],
    [category |-> "fitness", target |-> "weekly", priority |-> 11, emoji |-> "run"] }

\* add_log(goal_id, update, update) and add_log(goal_id, text, analysis...)
LogArgs ==
  { [parsed_update |-> "ran 3 miles", value |-> <<>>, unit |-> "", sentiment |-> "neutral"],
    [parsed_update |-> "Ran", value |-> <<3>>, unit |-> "miles", sentiment |-> "positive"] }

GoalIds == 1..(MaxGoalId + 1)

\* the keyword arguments update_goal is called with
GoalKwargs ==
  { [f \in {"priority"} |-> 11],
    [f \in {"id"} |-> MaxGoalId + 1] }

ConfigKwargs ==
  { [f \in {"ai_personality"} |-> "encouraging"] }

Init ==
  /\ file_exists = FALSE
  /\ file_text = <<>>
  /\ file_mtime = 0
  /\ cache = <<>>
  /\ cache_mtime = 0
  /\ now = 1
  /\ last_call = Call("start", 0, NoKwargs, "ok")
  /\ goal_ids_assigned = <<>>
  /\ log_ids_assigned = <<>>
  /\ heap = <<>>
  /\ cache_ref = 0
  /\ pc = [w \in Workers |-> "idle"]
  /\ loc = [w \in Workers |-> NoLocals]

Next ==
  \/ \E t \in Titles, a \in GoalArgs :
       add_goal(t, a.category, a.target, a.priority, a.emoji)
  \/ get_goals
  \/ \E g \in GoalIds : get_goal(g)
  \/ \E g \in GoalIds, kw \in GoalKwargs : update_goal(g, kw)
  \/ \E g \in GoalIds : remove_goal(g)
  \/ \E g \in GoalIds, a \in LogArgs :
       add_log(g, "ran 3 miles", a.parsed_update, a.value, a.unit, a.sentiment)
  \/ \E g \in {0} \cup GoalIds : get_logs(g)
  \/ get_config
  \/ \E kw \in ConfigKwargs : update_config(kw)
  \/ Tick
  \/ NewProcess

Spec == Init /\ [][Next]_vars

\* The store functions of one process while the file is also changed from
\* outside it.
NextExt ==
  \/ \E t \in Titles : add_goal(t, "general", "", 3, "")
  \/ get_goals
  \/ \E g \in GoalIds : remove_goal(g)
  \/ \E g \in GoalIds : add_log(g, "ran 3 miles", "ran 3 miles", <<>>, "", "neutral")
  \/ \E g \in {0} \cup GoalIds : get_logs(g)
  \/ \E kw \in ConfigKwargs : update_config(kw)
  \/ Tick
  \/ NewProcess
  \/ \E t \in Titles : other_process_add_goal(t)
  \/ os_remove

SpecExt == Init /\ [][NextExt]_vars

\* what the AI returns to _do_log: a goal id and the parsed update
LogAnalyses == { [a EXCEPT !.goal_id = g] :
                   a \in { [l \in DOMAIN x \cup {"goal_id"} |->
                              IF l = "goal_id" THEN 0 ELSE x[l]] : x \in LogArgs },
                   g \in 1..MaxGoalId }

\* The dashboard after on_mount (its first _refresh_display has loaded the
\* store of a missing file), then its worker threads.
InitWorkers ==
  /\ file_exists = FALSE
  /\ file_text = <<>>
  /\ file_mtime = 0
  /\ heap = [s \in HeapSlots |-> DataStore]
  /\ cache_ref = 1
  /\ cache = <<DataStore>>
  /\ cache_mtime = 0
  /\ now = 1
  /\ last_call = Call("start", 0, NoKwargs, "ok")
  /\ goal_ids_assigned = <<>>
  /\ log_ids_assigned = <<>>
  /\ pc = [w \in Workers |-> "idle"]
  /\ loc = [w \in Workers |-> NoLocals]

NextWorkers ==
  \/ \E w \in Workers, a \in GoalArgs, ok \in BOOLEAN : worker_start(w, "goal", a, ok)
  \/ \E w \in Workers, a \in LogAnalyses, ok \in BOOLEAN : worker_start(w, "log", a, ok)
  \/ \E w \in Workers :
       \/ worker_goals(w)
       \/ worker_lookup(w)
       \/ worker_load(w)
       \/ worker_make(w)
       \/ worker_append(w)
       \/ worker_incr_read(w)
       \/ worker_incr_write(w)
       \/ worker_open(w)
       \/ worker_write(w)
       \/ worker_set_cache(w)
       \/ worker_refresh(w)
  \/ Tick

SpecWorkers == InitWorkers /\ [][NextWorkers]_vars

\* the process is killed (or the machine stops) while a store call runs: its
\* threads, their objects and the module globals are gone, the file stays
\* as the last system call left it
process_killed ==
  /\ \E w \in Workers : pc[w] \notin {"idle", "failed"}
  /\ pc' = [w \in Workers |-> "idle"]
  /\ loc' = [w \in Workers |-> NoLocals]
  /\ heap' = [s \in HeapSlots |-> DataStore]
  /\ cache_ref' = 0
  /\ cache' = <<>>
  /\ cache_mtime' = 0
  /\ UNCHANGED now /\ FileSame /\ HistorySame

\* One thread at a time runs the store calls, statement by statement, and
\* the process may be killed between any two of them.
NextCrash ==
  \/ \E a \in GoalArgs, ok \in BOOLEAN : worker_start(1, "goal", a, ok)
  \/ \E a \in LogAnalyses, ok \in BOOLEAN : worker_start(1, "log", a, ok)
  \/ worker_goals(1)
  \/ worker_lookup(1)
  \/ worker_load(1)
  \/ worker_make(1)
  \/ worker_append(1)
  \/ worker_incr_read(1)
  \/ worker_incr_write(1)
  \/ worker_open(1)
  \/ worker_write(1)
  \/ worker_set_cache(1)
  \/ worker_refresh(1)
  \/ process_killed
  \/ Tick

SpecCrash == InitWorkers /\ [][NextCrash]_vars

\* One worker at a time, with a display call that may raise.
NextTui ==
  \/ \E a \in GoalArgs, ok \in BOOLEAN : worker_start(1, "goal", a, ok)
  \/ \E a \in LogAnalyses, ok \in BOOLEAN : worker_start(1, "log", a, ok)
  \/ worker_goals(1)
  \/ worker_lookup(1)
  \/ worker_load(1)
  \/ worker_make(1)
  \/ worker_append(1)
  \/ worker_incr_read(1)
  \/ worker_incr_write(1)
  \/ worker_open(1)
  \/ worker_write(1)
  \/ worker_set_cache(1)
  \/ worker_refresh(1)
  \/ worker_refresh_raises(1)
  \/ Tick

SpecTui == InitWorkers /\ [][NextTui]_vars

-----------------------------------------------------------------------------
(* ai.py. A JSON value is <<"int", n>>, <<"str", s>> or <<"null", 0>>; the  *)
(* text of a reply is prose without JSON, a JSON array, a JSON object, or  *)
(* a JSON object inside a ``` fence; data maps the object's keys to values.*)

JInt(n) == <<"int", n>>
JStr(s) == <<"str", s>>
JNull == <<"null", 0>>

is_int(v) == v[1] = "int"
is_str(v) == v[1] = "str"

Reply(kind, data) == [kind |-> kind, data |-> data]

\* what a call returned or raised: raised is "" or the exception's class,
\* msg tells the ValueError of get_client from pydantic's ValidationError
Returned(value) == [raised |-> "", msg |-> "", value |-> value]
Raised(class, msg) == [raised |-> class, msg |-> msg, value |-> <<>>]

\* _extract_json(text): json.loads of the text, else of the first fenced
\* block or flat {...} in it, else JSONDecodeError
extract_json(text) ==
  IF text.kind = "prose" THEN Raised("JSONDecodeError", "No valid JSON found")
  ELSE Returned([is_dict |-> text.kind \in {"object", "fenced"}, data |-> text.data])

\* _call_claude(prompt): get_client raises ValueError without the key, the
\* request raises the SDK's APIConnectionError without a connection
call_claude(key, net, reply) ==
  IF ~key THEN Raised("ValueError", "ANTHROPIC_API_KEY environment variable not set")
  ELSE IF ~net THEN Raised("APIConnectionError", "Connection error")
  ELSE Returned(reply)

\* data.get(key, default)
dict_get(data, key, default) == IF key \in DOMAIN data THEN data[key] ELSE default

CATEGORY_ICONS ==
  [c \in {"fitness", "health", "learning", "reading", "finance", "career",
          "relationships", "creativity", "mindfulness", "productivity",
          "general", "ai-tools"} |->
     CASE c = "fitness" -> "nf-md-run"
       [] c = "health" -> "nf-md-heart-pulse"
       [] c = "learning" -> "nf-md-lightbulb"
       [] c = "reading" -> "nf-md-book-open"
       [] c = "finance" -> "nf-md-currency-usd"
       [] c = "career" -> "nf-md-briefcase"
       [] c = "relationships" -> "nf-md-account-multiple"
       [] c = "creativity" -> "nf-md-palette"
       [] c = "mindfulness" -> "nf-md-meditation"
       [] c = "productivity" -> "nf-md-lightning-bolt"
       [] c = "general" -> "nf-md-target"
       [] OTHER -> "nf-md-robot"]

\* analyze_goal(title): GoalAnalysis validates category, target: str and
\* priority: int; a reply without JSON gives the defaults
analyze_goal(key, net, reply) ==
  LET response == call_claude(key, net, reply)
      parsed == extract_json(response.value)
      data == parsed.value.data
      category == dict_get(data, "category", JStr("general"))
      target == dict_get(data, "target", JStr(""))
      priority == dict_get(data, "priority", JInt(3))
  IN  IF response.raised # "" THEN response
      ELSE IF parsed.raised # ""
      THEN Returned([category |-> "general", target |-> "", priority |-> 3,
                     emoji |-> CATEGORY_ICONS["general"]])
      ELSE IF ~parsed.value.is_dict
      THEN Raised("AttributeError", "'list' object has no attribute 'get'")
      ELSE IF ~(is_str(category) /\ is_str(target) /\ is_int(priority))
      THEN Raised("ValueError", "validation error for GoalAnalysis")
      ELSE Returned([category |-> category[2], target |-> target[2],
                     priority |-> priority[2],
                     emoji |-> IF category[2] \in DOMAIN CATEGORY_ICONS
                               THEN CATEGORY_ICONS[category[2]]
                               ELSE CATEGORY_ICONS["general"]])

\* analyze_log(raw_input, goals) for a non-empty goals: LogAnalysis validates
\* goal_id: int, parsed_update, unit, sentiment: str, value: float or None
analyze_log(raw_input, goals, key, net, reply) ==
  LET response == call_claude(key, net, reply)
      parsed == extract_json(response.value)
      data == parsed.value.data
      goal_id == dict_get(data, "goal_id", JInt(goals[1].id))
      parsed_update == dict_get(data, "parsed_update", JStr(raw_input))
      value == dict_get(data, "value", JNull)
      unit == dict_get(data, "unit", JStr(""))
      sentiment == dict_get(data, "sentiment", JStr("neutral"))
  IN  IF response.raised # "" THEN response
      ELSE IF parsed.raised # ""
      THEN Returned([goal_id |-> goals[1].id, parsed_update |-> raw_input,
                     value |-> <<>>, unit |-> "", sentiment |-> "neutral"])
      ELSE IF ~parsed.value.is_dict
      THEN Raised("AttributeError", "'list' object has no attribute 'get'")
      ELSE IF ~(/\ is_int(goal_id) /\ is_str(parsed_update) /\ is_str(unit)
                /\ is_str(sentiment) /\ (is_int(value) \/ value = JNull))
      THEN Raised("ValueError", "validation error for LogAnalysis")
      ELSE Returned([goal_id |-> goal_id[2], parsed_update |-> parsed_update[2],
                     value |-> IF value = JNull THEN <<>> ELSE <<value[2]>>,
                     unit |-> unit[2], sentiment |-> sentiment[2]])

-----------------------------------------------------------------------------
(* cli.py: each command is one run of the program, from empty module       *)
(* globals to its exit. last_call records the command, its options, what   *)
(* it printed (shown), its exit code and whether it called the AI.         *)

Opts(goal, no_ai, key, net, reply) ==
  [goal |-> goal, no_ai |-> no_ai, key |-> key, net |-> net, reply |-> reply]

CliCall(op, goal_id, opts, status, exit, shown, ai) ==
  [op |-> op, goal_id |-> goal_id, kwargs |-> opts, status |-> status,
   exit |-> exit, shown |-> shown, ai |-> ai]

\* an uncaught exception: the traceback is printed, the exit code is 1, and
\* no further statement runs
cli_crash(op, opts, ai) ==
  /\ last_call' = CliCall(op, 0, opts, "raised", 1, {"Traceback"}, ai)
  /\ UNCHANGED <<file_exists, file_text, file_mtime, cache, cache_mtime,
                 goal_ids_assigned, log_ids_assigned>>

\* a command that ends without save_data
cli_return(ld, call) ==
  /\ NoSave(ld, ld.store)
  /\ last_call' = call
  /\ UNCHANGED <<goal_ids_assigned, log_ids_assigned>>

\* if option: an option that was not given is None (<<>>); zero is the falsy
\* value of the option's type, 0 or ""
truthy(opt, zero) == opt # <<>> /\ opt[1] # zero

\* res add TITLE [--no-ai]
cli_add(title, opts) ==
  LET res == analyze_goal(opts.key, opts.net, opts.reply)
      ld == load_data
      store == ld.store
      a == res.value
      with_ai == ~opts.no_ai /\ res.raised = "" /\ PriorityOk(a.priority)
      goal == IF with_ai
              THEN Goal(store.next_goal_id, title, a.category, a.target, now,
                        a.priority, a.emoji)
              ELSE Goal(store.next_goal_id, title, "general", "", now, 3, "")
      shown == IF opts.no_ai THEN {"Added"}
               ELSE IF with_ai THEN {"Added", "Category"}
               ELSE {"AI unavailable",
                     IF res.raised = "" THEN "validation error for Goal" ELSE res.msg,
                     "Added"}
  IN  /\ cache = <<>>
      /\ DiskStore.next_goal_id <= MaxGoalId
      /\ Len(goal_ids_assigned) < MaxGoalId
      /\ IF (~opts.no_ai /\ res.raised \notin {"", "ValueError"}) \/ ld.raised
         THEN cli_crash("add", opts, ~opts.no_ai)
         ELSE /\ save_data(append_goal(store, goal))
              /\ last_call' = CliCall("add", goal.id, opts, "ok", 0, shown, ~opts.no_ai)
              /\ goal_ids_assigned' = Append(goal_ids_assigned, goal.id)
              /\ UNCHANGED log_ids_assigned
      /\ UNCHANGED <<now, worker_vars>>

\* res log UPDATE [--goal ID]
cli_log(update, opts) ==
  LET ld == load_data
      store == ld.store
      goals == store.goals
      explicit == truthy(opts.goal, 0)
      res == analyze_log(update, goals, opts.key, opts.net, opts.reply)
      a == res.value
      matched == IF explicit THEN opts.goal[1]
                 ELSE IF res.raised = "" /\ goal_exists(store, a.goal_id) THEN a.goal_id
                 ELSE goals[1].id
      log == IF explicit \/ res.raised # ""
             THEN LogEntry(store.next_log_id, matched, update, update, <<>>, "",
                           now, "neutral")
             ELSE LogEntry(store.next_log_id, matched, update, a.parsed_update,
                           a.value, a.unit, now, a.sentiment)
  IN  /\ cache = <<>>
      /\ DiskStore.next_log_id <= MaxLogId
      /\ Len(log_ids_assigned) < MaxLogId
      /\ IF ld.raised THEN cli_crash("log", opts, FALSE)
         ELSE IF goals = <<>>
         THEN cli_return(ld, CliCall("log", 0, opts, "none", 1,
                                     {"No resolutions to log against!"}, FALSE))
         ELSE IF explicit /\ ~goal_exists(store, opts.goal[1])
         THEN cli_return(ld, CliCall("log", 0, opts, "none", 1,
                                     {"Goal not found!"}, FALSE))
         ELSE IF ~explicit /\ res.raised \notin {"", "ValueError"}
         THEN /\ NoSave(ld, store)
              /\ last_call' = CliCall("log", 0, opts, "raised", 1, {"Traceback"}, TRUE)
              /\ UNCHANGED <<goal_ids_assigned, log_ids_assigned>>
         ELSE /\ save_data(append_log(store, log))
              /\ last_call' = CliCall("log", matched, opts, "ok", 0, {"Logged to"},
                                      ~explicit)
              /\ log_ids_assigned' = Append(log_ids_assigned, log.id)
              /\ UNCHANGED goal_ids_assigned
      /\ UNCHANGED <<now, worker_vars>>

\* the falsy value of each option of res edit
EditOptions == [title |-> "", category |-> "", target |-> "", priority |-> 0]

\* res edit ID [--title T] [--category C] [--target T] [--priority P]
cli_edit(goal_id, options) ==
  LET ld == load_data
      store == ld.store
      i == IndexFrom(store.goals, goal_id, 1)
      given == {f \in DOMAIN options : truthy(options[f], EditOptions[f])}
      updates == [f \in given |-> options[f][1]]
      goal == replace_goal(store, i, updates).goals[i]
  IN  /\ cache = <<>>
      /\ IF ld.raised THEN cli_crash("edit", options, FALSE)
         ELSE IF i = 0
         THEN cli_return(ld, CliCall("edit", goal_id, options, "none", 1,
                                     {"Goal not found!"}, FALSE))
         ELSE IF given = {}
         THEN cli_return(ld, CliCall("edit", goal_id, options, "none", 0,
                                     {"No changes specified."}, FALSE))
         ELSE /\ save_data(replace_goal(store, i, updates))
              /\ last_call' = CliCall("edit", goal_id, options, "ok", 0,
                                      {"Updated"}, FALSE)
              /\ UNCHANGED <<goal_ids_assigned, log_ids_assigned>>
      /\ UNCHANGED <<now, worker_vars>>

\* mutant: the goal is removed whatever the answer to the prompt is
cli_remove_unasked(goal_id, force, confirm) ==
  LET ld == load_data
      store == ld.store
      opts == [force |-> force, confirm |-> confirm]
  IN  /\ cache = <<>>
      /\ IF ld.raised THEN cli_crash("remove", opts, FALSE)
         ELSE IF ~goal_exists(store, goal_id)
         THEN cli_return(ld, CliCall("remove", goal_id, opts, "none", 1,
                                     {"Goal not found!"}, FALSE))
         ELSE /\ save_data(drop_goal(store, goal_id))
              /\ last_call' = CliCall("remove", goal_id, opts, "ok", 0,
                                      {"Removed"}, FALSE)
              /\ UNCHANGED <<goal_ids_assigned, log_ids_assigned>>
      /\ UNCHANGED <<now, worker_vars>>

\* res remove ID [--force]; confirm is the answer to the prompt
cli_remove(goal_id, force, confirm) ==
  LET ld == load_data
      store == ld.store
      opts == [force |-> force, confirm |-> confirm]
  IN  /\ cache = <<>>
      /\ IF ld.raised THEN cli_crash("remove", opts, FALSE)
         ELSE IF ~goal_exists(store, goal_id)
         THEN cli_return(ld, CliCall("remove", goal_id, opts, "none", 1,
                                     {"Goal not found!"}, FALSE))
         ELSE IF ~force /\ ~confirm
         THEN cli_return(ld, CliCall("remove", goal_id, opts, "none", 0,
                                     {"Cancelled."}, FALSE))
         ELSE /\ save_data(drop_goal(store, goal_id))
              /\ last_call' = CliCall("remove", goal_id, opts, "ok", 0,
                                      {"Removed"}, FALSE)
              /\ UNCHANGED <<goal_ids_assigned, log_ids_assigned>>
      /\ UNCHANGED <<now, worker_vars>>

\* res logs [--goal ID]: get_logs filters when goal_id is not None
cli_logs(opts) ==
  LET ld == load_data
      store == ld.store
      all_logs == IF opts.goal # <<>> THEN logs_of(store.logs, opts.goal[1])
                  ELSE store.logs
  IN  /\ cache = <<>>
      /\ IF ld.raised THEN cli_crash("logs", opts, FALSE)
         ELSE cli_return(ld, CliCall("logs", 0, opts, "ok", 0,
                                     IF all_logs = <<>> THEN {"No logs yet!"}
                                     ELSE {"Recent Logs"}, FALSE))
      /\ UNCHANGED <<now, worker_vars>>

\* generate_analysis(goals, logs, specific_goal_id): the text of the reply,
\* and no request at all when there are no goals
generate_analysis(goals, specific_goal_id, key, net, reply) ==
  IF goals = <<>> THEN Returned("No resolutions yet!")
  ELSE LET response == call_claude(key, net, reply)
       IN  IF response.raised # "" THEN response ELSE Returned("Progress Analysis")

\* res analyze [--goal ID]
cli_analyze(opts) ==
  LET ld == load_data
      store == ld.store
      res == generate_analysis(store.goals, opts.goal, opts.key, opts.net, opts.reply)
      ai == store.goals # <<>>
  IN  /\ cache = <<>>
      /\ IF ld.raised THEN cli_crash("analyze", opts, FALSE)
         ELSE IF res.raised = "ValueError"
         THEN cli_return(ld, CliCall("analyze", 0, opts, "none", 1,
                                     {"AI unavailable", res.msg}, ai))
         ELSE IF res.raised # ""
         THEN cli_return(ld, CliCall("analyze", 0, opts, "raised", 1,
                                     {"Traceback"}, ai))
         ELSE cli_return(ld, CliCall("analyze", 0, opts, "ok", 0, {res.value}, ai))
      /\ UNCHANGED <<now, worker_vars>>

\* len(get_logs(goal_id)), the count of get_goal_progress
get_goal_progress_count(store, goal_id) == Len(logs_of(store.logs, goal_id))

(* The command lines tried. Replies are texts the API can return; a string *)
(* value is never a numeral, which pydantic would coerce to a number.      *)

GoalOpts == {<<>>} \cup { <<g>> : g \in 0..(MaxGoalId + 1) }

Prose == Reply("prose", NoKwargs)

GoalReply == [category |-> JStr("fitness"), target |-> JStr("3x per week"),
              priority |-> JInt(1)]

GoalReplies ==
  { Prose, Reply("array", NoKwargs), Reply("object", NoKwargs),
    Reply("object", GoalReply), Reply("fenced", GoalReply),
    Reply("object", [GoalReply EXCEPT !.priority = JStr("high")]),
    Reply("object", [GoalReply EXCEPT !.priority = JInt(11)]) }

LogReply(goal_id) ==
  [goal_id |-> goal_id, parsed_update |-> JStr("Ran 3 miles"), value |-> JInt(3),
   unit |-> JStr("miles"), sentiment |-> JStr("positive")]

LogReplies ==
  { Prose, Reply("array", NoKwargs), Reply("object", NoKwargs),
    Reply("object", LogReply(JNull)) }
  \cup { Reply("object", LogReply(JInt(g))) : g \in GoalIds }

\* the environment of a run: the key is missing, the network is down, or the
\* API answers with one of the replies
AiEnv(goal, replies) ==
  { Opts(goal, FALSE, FALSE, TRUE, Prose), Opts(goal, FALSE, TRUE, FALSE, Prose) }
  \cup { Opts(goal, FALSE, TRUE, TRUE, r) : r \in replies }

AddOpts ==
  { Opts(<<>>, TRUE, key, TRUE, Prose) : key \in BOOLEAN } \cup AiEnv(<<>>, GoalReplies)

LogOpts == UNION { AiEnv(goal, LogReplies) : goal \in GoalOpts }

LogsOpts == { Opts(goal, FALSE, key, TRUE, Prose) : goal \in GoalOpts, key \in BOOLEAN }

AnalyzeOpts == UNION { AiEnv(goal, {Prose}) : goal \in GoalOpts }

EditOpts ==
  { [title |-> t, category |-> <<>>, target |-> <<>>, priority |-> p] :
      t \in {<<>>, <<"">>}, p \in {<<>>, <<0>>, <<2>>, <<11>>} }

NextCli ==
  \/ \E opts \in AddOpts : cli_add("Run 3x/week", opts)
  \/ \E opts \in LogOpts : cli_log("ran 3 miles", opts)
  \/ \E g \in GoalIds, options \in EditOpts : cli_edit(g, options)
  \/ \E g \in GoalIds, force, confirm \in BOOLEAN : cli_remove(g, force, confirm)
  \/ \E opts \in LogsOpts : cli_logs(opts)
  \/ \E opts \in AnalyzeOpts : cli_analyze(opts)
  \/ NewProcess

SpecCli == Init /\ [][NextCli]_vars

-----------------------------------------------------------------------------
(* app.py: ResolutionApp._setup_demo, run by on_mount of res --demo.       *)

missions ==
  << [title |-> "Week 1: Resolution Tracker", target |-> "Build a tracker",
      priority |-> 1, emoji |-> "nf-md-target"],
     [title |-> "Week 2: Model Mapping", target |-> "Map AI models",
      priority |-> 2, emoji |-> "nf-md-compass"],
     [title |-> "Week 3: Deep Research", target |-> "Research project",
      priority |-> 3, emoji |-> "nf-md-flask"],
     [title |-> "Week 4: Data Analyst", target |-> "Analyze data",
      priority |-> 4, emoji |-> "nf-md-chart-bar"],
     [title |-> "Week 5: Visual Reasoning", target |-> "Image analysis",
      priority |-> 5, emoji |-> "nf-md-eye"],
     [title |-> "Week 6: Information Pipelines", target |-> "Build pipeline",
      priority |-> 6, emoji |-> "nf-md-sync"],
     [title |-> "Week 7: Automation: Distribution", target |-> "Automate sharing",
      priority |-> 7, emoji |-> "nf-md-send"],
     [title |-> "Week 8: Automation: Productivity", target |-> "Boost productivity",
      priority |-> 8, emoji |-> "nf-md-lightning-bolt"],
     [title |-> "Week 9: Context Engineering", target |-> "Master context",
      priority |-> 9, emoji |-> "nf-md-tune"],
     [title |-> "Week 10: Build an AI App", target |-> "Ship an app",
      priority |-> 10, emoji |-> "nf-md-rocket-launch"] >>

demo_logs ==
  << [goal_id |-> 1, update |-> "Set up Python project with Textual"],
     [goal_id |-> 1, update |-> "Built CLI with Typer"],
     [goal_id |-> 1, update |-> "Added AI integration with Claude"],
     [goal_id |-> 1, update |-> "Created TUI dashboard"] >>

\* mutant: the first load after the removal returns the cached document
load_data_after_remove_cached == IF cache # <<>> THEN cache[1] ELSE DataStore

\* load_data() once the file is gone: a new DataStore, whatever is cached
load_data_after_remove == DataStore

\* for ... in missions: storage.add_goal(title, cat, target, pri, emoji); the
\* loop ends at the first goal that Goal's validation rejects
RECURSIVE add_missions(_, _)
add_missions(store, i) ==
  IF i > Len(missions) \/ ~PriorityOk(missions[i].priority) THEN store
  ELSE add_missions(
         append_goal(store, Goal(store.next_goal_id, missions[i].title, "ai-tools",
                                 missions[i].target, now, missions[i].priority,
                                 missions[i].emoji)),
         i + 1)

\* for ... in logs: storage.add_log(gid, update, update, val, "", sent); an
\* entry for a goal that is not in the store is not appended
RECURSIVE add_demo_logs(_, _)
add_demo_logs(store, i) ==
  IF i > Len(demo_logs) THEN store
  ELSE add_demo_logs(
         IF goal_exists(store, demo_logs[i].goal_id)
         THEN append_log(store, LogEntry(store.next_log_id, demo_logs[i].goal_id,
                                         demo_logs[i].update, demo_logs[i].update,
                                         <<1>>, "", now, "positive"))
         ELSE store,
         i + 1)

\* the ids of the sequence of goals or logs s from position i on
ids_from(s, i) == [k \in 1..(Len(s) - i) |-> s[i + k].id]

setup_demo ==
  LET first == load_data_after_remove
      with_goals == add_missions(first, 1)
      raised == Len(with_goals.goals) < Len(first.goals) + Len(missions)
      store == IF raised THEN with_goals ELSE add_demo_logs(with_goals, 1)
  IN  /\ Len(goal_ids_assigned) <= MaxGoalId + Len(missions)
      /\ save_data(store)
      /\ last_call' = Call("setup_demo", 0, NoKwargs, IF raised THEN "raised" ELSE "ok")
      /\ goal_ids_assigned' =
           goal_ids_assigned \o ids_from(store.goals, Len(first.goals))
      /\ log_ids_assigned' =
           log_ids_assigned \o ids_from(store.logs, Len(first.logs))
      /\ UNCHANGED <<now, worker_vars>>

\* the dashboard has been launched with --demo
demo_ran == Len(goal_ids_assigned) >= Len(missions)

\* the calls that write build the store that --demo finds; afterwards the
\* file can be removed, the program restarted and --demo run again
NextDemo ==
  \/ /\ ~demo_ran
     /\ \/ \E t \in Titles, a \in GoalArgs :
             add_goal(t, a.category, a.target, a.priority, a.emoji)
        \/ \E g \in GoalIds, kw \in GoalKwargs : update_goal(g, kw)
        \/ \E g \in GoalIds : remove_goal(g)
        \/ \E g \in GoalIds, a \in LogArgs :
             add_log(g, "ran 3 miles", a.parsed_update, a.value, a.unit, a.sentiment)
  \/ NewProcess
  \/ os_remove
  \/ setup_demo

SpecDemo == Init /\ [][NextDemo]_vars

-----------------------------------------------------------------------------
(* app.py: the streak shown for each goal by _refresh_display. A timestamp *)
(* is a number of ticks; TicksPerDay ticks make a calendar day.            *)

TicksPerDay == 2
MaxDay == 4
MaxStreakLogs == 3

\* datetime.date()
date(t) == t \div TicksPerDay

\* sorted(dates, reverse=True) of a set of dates
RECURSIVE sorted_reverse(_)
sorted_reverse(S) ==
  IF S = {} THEN <<>>
  ELSE LET m == CHOOSE x \in S : \A y \in S : y <= x
       IN  <<m>> \o sorted_reverse(S \ {m})

\* mutant: the loop goes on after a gap
RECURSIVE streak_loop_no_break(_, _, _)
streak_loop_no_break(dates, i, streak) ==
  IF i > Len(dates) THEN streak
  ELSE streak_loop_no_break(dates, i + 1,
                            IF dates[i] = dates[i - 1] - 1 THEN streak + 1 ELSE streak)

\* for i in range(1, len(dates)): streak += 1 while each date is the day
\* before the one ahead of it, break at the first that is not
RECURSIVE streak_loop(_, _, _)
streak_loop(dates, i, streak) ==
  IF i > Len(dates) THEN streak
  ELSE IF dates[i] = dates[i - 1] - 1 THEN streak_loop(dates, i + 1, streak + 1)
  ELSE streak

\* _calc_streak(logs), with today = datetime.now().date()
calc_streak(logs, today) ==
  IF logs = <<>> THEN 0
  ELSE LET dates == sorted_reverse({ date(logs[i].timestamp) : i \in 1..Len(logs) })
       IN  IF dates[1] < today - 1 THEN 0
           ELSE streak_loop(dates, 2, 1)

\* l.value or 1: None and 0 are falsy
value_or_1(value) == IF value = <<>> \/ value[1] = 0 THEN 1 ELSE value[1]

\* sum(l.value or 1 for l in day_logs)
RECURSIVE sum_values(_)
sum_values(day_logs) ==
  IF day_logs = <<>> THEN 0
  ELSE value_or_1(Head(day_logs).value) + sum_values(Tail(day_logs))

\* _get_sparkline(logs): for i in range(6, -1, -1) the sum over the logs
\* dated today - i; position k of the result is the day today - (7 - k)
get_sparkline(logs, today) ==
  [k \in 1..7 |->
     sum_values(SelectSeq(logs, LAMBDA l : date(l.timestamp) = today - (7 - k)))]

\* a / b of two numbers, kept as the fraction
true_div(a, b) == [num |-> a, den |-> b]

\* mutant: the first argument, whatever the second is
min_of_first(x, y) == x

\* min(x, y) of two fractions with positive denominators
min_of(x, y) == IF x.num * y.den <= y.num * x.den THEN x ELSE y

\* progress = min(log_count / 10, 1.0)
progress_of(log_count) == min_of(true_div(log_count, 10), true_div(1, 1))

\* mutant: on_track counts the recent logs, not the goals that have one
update_stats_counts_logs(goals, logs) ==
  LET week_ago == now - 7 * TicksPerDay
      three_days == now - 3 * TicksPerDay
  IN  [total_logs |-> Len(SelectSeq(logs, LAMBDA l : l.timestamp > week_ago)),
       on_track |-> Len(SelectSeq(logs, LAMBDA l : l.timestamp > three_days)),
       total |-> Len(goals),
       streak |-> calc_streak(logs, date(now))]

\* _update_stats(goals, logs): logs of the last 7 days, goals with a log of
\* the last 3 days, number of goals, streak over all logs
update_stats(goals, logs) ==
  LET week_ago == now - 7 * TicksPerDay
      three_days == now - 3 * TicksPerDay
      recent_goal_ids == { logs[i].goal_id : i \in { j \in 1..Len(logs) :
                                                      logs[j].timestamp > three_days } }
  IN  [total_logs |-> Len(SelectSeq(logs, LAMBDA l : l.timestamp > week_ago)),
       on_track |-> Cardinality({ i \in 1..Len(goals) : goals[i].id \in recent_goal_ids }),
       total |-> Len(goals),
       streak |-> calc_streak(logs, date(now))]

\* _refresh_display(): one load of goals and logs; for each goal the log
\* count, progress, streak and sparkline of its logs, then the stats bar
refresh_display ==
  LET ld == load_data
      store == ld.store
      today == date(now)
      ids == { store.goals[i].id : i \in 1..Len(store.goals) }
  IN  /\ NoSave(ld, store)
      /\ last_call' =
           IF ld.raised
           THEN [op |-> "refresh_display", goal_id |-> 0, kwargs |-> NoKwargs,
                 status |-> "raised", today |-> today, now |-> now,
                 streak |-> NoKwargs, logs |-> NoKwargs, progress |-> NoKwargs,
                 sparkline |-> NoKwargs, stats |-> NoKwargs]
           ELSE [op |-> "refresh_display", goal_id |-> 0, kwargs |-> NoKwargs,
                 status |-> "ok", today |-> today, now |-> now,
                 streak |-> [g \in ids |-> calc_streak(logs_of(store.logs, g), today)],
                 logs |-> [g \in ids |-> Len(logs_of(store.logs, g))],
                 progress |-> [g \in ids |-> progress_of(Len(logs_of(store.logs, g)))],
                 sparkline |-> [g \in ids |-> get_sparkline(logs_of(store.logs, g), today)],
                 stats |-> update_stats(store.goals, store.logs)]
      /\ UNCHANGED <<now, goal_ids_assigned, log_ids_assigned, worker_vars>>

\* midnight passes
day_passes ==
  /\ date(now) < MaxDay
  /\ now' = now + TicksPerDay
  /\ UNCHANGED <<file_exists, file_text, file_mtime, cache, cache_mtime, last_call,
                 goal_ids_assigned, log_ids_assigned, worker_vars>>

\* the timestamps of up to MaxStreakLogs entries logged up to the tick n, in
\* the order they were appended
Timestamps(n) ==
  { ts \in UNION { [1..k -> 0..n] : k \in 0..MaxStreakLogs } :
      \A i \in 1..(Len(ts) - 1) : ts[i] <= ts[i + 1] }

\* the store after add_goal at tick 0 and one add_log at each timestamp
logged_at(ts) ==
  [goals |-> <<Goal(1, "Run 3x/week", "general", "", 0, 3, "")>>,
   logs |-> [i \in 1..Len(ts) |->
               LogEntry(i, 1, "ran 3 miles", "ran 3 miles", <<>>, "", ts[i], "neutral")],
   config |-> Config, next_goal_id |-> 2, next_log_id |-> Len(ts) + 1]

InitStreak ==
  /\ now \in 0..(TicksPerDay * (MaxDay + 1) - 1)
  /\ \E ts \in Timestamps(now) :
       /\ file_text = <<model_dump(logged_at(ts))>>
       /\ log_ids_assigned = [i \in 1..Len(ts) |-> i]
  /\ file_exists = TRUE
  /\ file_mtime = 0
  /\ cache = <<>>
  /\ cache_mtime = 0
  /\ last_call = Call("start", 0, NoKwargs, "ok")
  /\ goal_ids_assigned = <<1>>
  /\ heap = <<>>
  /\ cache_ref = 0
  /\ pc = [w \in Workers |-> "idle"]
  /\ loc = [w \in Workers |-> NoLocals]

NextStreak ==
  \/ refresh_display
  \/ day_passes
  \/ \E a \in LogArgs :
       add_log(1, "ran 3 miles", a.parsed_update, a.value, a.unit, a.sentiment)
  \/ NewProcess

SpecStreak == InitStreak /\ [][NextStreak]_vars

-----------------------------------------------------------------------------
(* The dashboard over a store with two goals and logs that carry values,   *)
(* while days pass or the clock is set back.                               *)

MaxActivityLogs == 2
MaxLogDay == 2
MaxActivityDay == 10

\* the clock moves by whole days: days pass, or the system clock is set back
clock_moves(days) ==
  /\ now + days * TicksPerDay >= 0
  /\ date(now + days * TicksPerDay) <= MaxActivityDay
  /\ now' = now + days * TicksPerDay
  /\ UNCHANGED <<file_exists, file_text, file_mtime, cache, cache_mtime, last_call,
                 goal_ids_assigned, log_ids_assigned, worker_vars>>

\* what add_log was called with: the tick, the goal and the value
Logged ==
  [timestamp : 0..(TicksPerDay * (MaxLogDay + 1) - 1), goal_id : 1..2,
   value : {<<>>, <<0>>, <<3>>}]

LoggedSeqs ==
  { es \in UNION { [1..k -> Logged] : k \in 0..MaxActivityLogs } :
      \A i \in 1..(Len(es) - 1) : es[i].timestamp <= es[i + 1].timestamp }

\* the store after two add_goal at tick 0 and one add_log for each entry
activity_store(es) ==
  [goals |-> <<Goal(1, "Run 3x/week", "general", "", 0, 3, ""),
               Goal(2, "Read 12 books", "general", "", 0, 3, "")>>,
   logs |-> [i \in 1..Len(es) |->
               LogEntry(i, es[i].goal_id, "ran 3 miles", "ran 3 miles", es[i].value,
                        "", es[i].timestamp, "neutral")],
   config |-> Config, next_goal_id |-> 3, next_log_id |-> Len(es) + 1]

InitActivity ==
  /\ now \in { TicksPerDay * MaxLogDay + r : r \in 0..(TicksPerDay - 1) }
  /\ \E es \in LoggedSeqs :
       /\ \A i \in 1..Len(es) : es[i].timestamp <= now
       /\ file_text = <<model_dump(activity_store(es))>>
       /\ log_ids_assigned = [i \in 1..Len(es) |-> i]
  /\ file_exists = TRUE
  /\ file_mtime = 0
  /\ cache = <<>>
  /\ cache_mtime = 0
  /\ last_call = Call("start", 0, NoKwargs, "ok")
  /\ goal_ids_assigned = <<1, 2>>
  /\ heap = <<>>
  /\ cache_ref = 0
  /\ pc = [w \in Workers |-> "idle"]
  /\ loc = [w \in Workers |-> NoLocals]

NextActivity ==
  \/ refresh_display
  \/ \E days \in {-1, 1} : clock_moves(days)
  \/ NewProcess

SpecActivity == InitActivity /\ [][NextActivity]_vars

-----------------------------------------------------------------------------
(* The dashboard over a goal with up to MaxProgressLogs log entries.       *)

MaxProgressLogs == 16

InitProgress ==
  /\ now = 0
  /\ \E n \in 0..MaxProgressLogs :
       /\ file_text = <<model_dump(logged_at([i \in 1..n |-> 0]))>>
       /\ log_ids_assigned = [i \in 1..n |-> i]
  /\ file_exists = TRUE
  /\ file_mtime = 0
  /\ cache = <<>>
  /\ cache_mtime = 0
  /\ last_call = Call("start", 0, NoKwargs, "ok")
  /\ goal_ids_assigned = <<1>>
  /\ heap = <<>>
  /\ cache_ref = 0
  /\ pc = [w \in Workers |-> "idle"]
  /\ loc = [w \in Workers |-> NoLocals]

SpecProgress == InitProgress /\ [][NextStreak]_vars

(* A write that fails: open(data_file, "w") raises (the directory is not   *)
(* writable), or it succeeds and json.dump raises (the disk is full).      *)

\* save_data(store) raising: `_cache = store` is not reached, but store is
\* the cached object and the caller has already changed it in place
save_data_raises(ld, store, opened) ==
  /\ cache' = <<store>>
  /\ cache_mtime' = ld.cache_mtime
  /\ IF opened
     THEN /\ file_exists' = TRUE
          /\ file_text' = <<>>
          /\ file_mtime' = now
     ELSE UNCHANGED <<file_exists, file_text, file_mtime>>

\* the call that did not return, and the document load_data gave it
FailedCall(op, goal_id, kwargs, before) ==
  [op |-> op, goal_id |-> goal_id, kwargs |-> kwargs, status |-> "write_failed",
   before |-> before]

add_goal_write_fails(title, opened) ==
  LET ld == load_data
      store == ld.store
      goal == Goal(store.next_goal_id, title, "general", "", now, 3, "")
  IN  /\ store.next_goal_id <= MaxGoalId
      /\ Len(goal_ids_assigned) < MaxGoalId
      /\ ~ld.raised
      /\ save_data_raises(ld, append_goal(store, goal), opened)
      /\ last_call' = FailedCall("add_goal", goal.id, NoKwargs, store)
      /\ goal_ids_assigned' = Append(goal_ids_assigned, goal.id)
      /\ UNCHANGED <<now, log_ids_assigned, worker_vars>>

update_goal_write_fails(goal_id, kwargs, opened) ==
  LET ld == load_data
      store == ld.store
      i == IndexFrom(store.goals, goal_id, 1)
  IN  /\ ~ld.raised /\ i # 0
      /\ save_data_raises(ld, replace_goal(store, i, kwargs), opened)
      /\ last_call' = FailedCall("update_goal", goal_id, kwargs, store)
      /\ UNCHANGED <<now, goal_ids_assigned, log_ids_assigned, worker_vars>>

remove_goal_write_fails(goal_id, opened) ==
  LET ld == load_data
      store == ld.store
      after == drop_goal(store, goal_id)
  IN  /\ ~ld.raised /\ Len(after.goals) < Len(store.goals)
      /\ save_data_raises(ld, after, opened)
      /\ last_call' = FailedCall("remove_goal", goal_id, NoKwargs, store)
      /\ UNCHANGED <<now, goal_ids_assigned, log_ids_assigned, worker_vars>>

add_log_write_fails(goal_id, opened) ==
  LET ld == load_data
      store == ld.store
      log == LogEntry(store.next_log_id, goal_id, "ran 3 miles", "ran 3 miles",
                      <<>>, "", now, "neutral")
  IN  /\ store.next_log_id <= MaxLogId
      /\ Len(log_ids_assigned) < MaxLogId
      /\ ~ld.raised /\ goal_exists(store, goal_id)
      /\ save_data_raises(ld, append_log(store, log), opened)
      /\ last_call' = FailedCall("add_log", goal_id, NoKwargs, store)
      /\ log_ids_assigned' = Append(log_ids_assigned, log.id)
      /\ UNCHANGED <<now, goal_ids_assigned, worker_vars>>

update_config_write_fails(kwargs, opened) ==
  LET ld == load_data
      store == ld.store
  IN  /\ ~ld.raised
      /\ save_data_raises(ld, [store EXCEPT !.config = model_copy(@, kwargs)], opened)
      /\ last_call' = FailedCall("update_config", 0, kwargs, store)
      /\ UNCHANGED <<now, goal_ids_assigned, log_ids_assigned, worker_vars>>

\* update_goal(goal_id, priority=5)
PriorityKwargs == { [f \in {"priority"} |-> 5] }

\* The store functions of one process, each write succeeding or failing.
NextWriteFail ==
  \/ \E t \in Titles : add_goal(t, "general", "", 3, "")
  \/ get_goals
  \/ \E g \in GoalIds, kw \in PriorityKwargs : update_goal(g, kw)
  \/ \E g \in GoalIds : remove_goal(g)
  \/ \E g \in GoalIds : add_log(g, "ran 3 miles", "ran 3 miles", <<>>, "", "neutral")
  \/ \E kw \in ConfigKwargs : update_config(kw)
  \/ \E t \in Titles, o \in BOOLEAN : add_goal_write_fails(t, o)
  \/ \E g \in GoalIds, kw \in PriorityKwargs, o \in BOOLEAN :
       update_goal_write_fails(g, kw, o)
  \/ \E g \in GoalIds, o \in BOOLEAN : remove_goal_write_fails(g, o)
  \/ \E g \in GoalIds, o \in BOOLEAN : add_log_write_fails(g, o)
  \/ \E kw \in ConfigKwargs, o \in BOOLEAN : update_config_write_fails(kw, o)
  \/ Tick
  \/ NewProcess

SpecWriteFail == Init /\ [][NextWriteFail]_vars

-----------------------------------------------------------------------------
-----------------------------------------------------------------------------
(* Views of the state used by the properties.                              *)

\* the calls after which save_data has run
Saved(call) ==
  \/ call.op \in {"add_goal", "update_goal", "add_log", "update_config"} /\ call.status = "ok"
  \/ call.op = "remove_goal" /\ call.status = "true"

StrictlyIncreasing(s) == \A i, j \in 1..Len(s) : i < j => s[i] < s[j]

Distinct(s) == \A i, j \in 1..Len(s) : i # j => s[i].id # s[j].id

-----------------------------------------------------------------------------
\* C1: the ids add_goal assigns are strictly increasing (hence pairwise
\* distinct), and after N successful add_goal calls next_goal_id is 1 + N,
\* in the file and in the cached document, whatever else was called.
C1_GoalIdsIncrease ==
  /\ StrictlyIncreasing(goal_ids_assigned)
  /\ DiskStore.next_goal_id = 1 + Len(goal_ids_assigned)
  /\ cache # <<>> => cache[1].next_goal_id = 1 + Len(goal_ids_assigned)

C1_Witness ==
  /\ last_call.op = "add_goal" /\ last_call.status = "ok"
  /\ goal_ids_assigned = <<1, 2>>

\* C2 (as stated): every log entry's goal_id is the id of a goal in the store.
C2_LogsReferToGoals ==
  /\ \A i \in 1..Len(DiskStore.logs) : goal_exists(DiskStore, DiskStore.logs[i].goal_id)
  /\ cache # <<>> =>
       \A i \in 1..Len(cache[1].logs) : goal_exists(cache[1], cache[1].logs[i].goal_id)

\* C3: after remove_goal(id) returned True, get_logs(id) is empty and the
\* goal is gone, in the process's view and in the file.
C3_RemoveCascades ==
  (last_call.op = "remove_goal" /\ last_call.status = "true") =>
    /\ get_logs_result(last_call.goal_id) = <<>>
    /\ get_goal_result(last_call.goal_id) = <<>>
    /\ logs_of(DiskStore.logs, last_call.goal_id) = <<>>
    /\ ~goal_exists(DiskStore, last_call.goal_id)

\* a goal that had a log entry was removed
C3_Witness ==
  /\ last_call.op = "remove_goal" /\ last_call.status = "true"
  /\ Len(log_ids_assigned) > Len(get_logs_result(0))

\* C4: next_goal_id and next_log_id never decrease and exceed every id
\* add_goal and add_log have handed out, so no id is handed out twice.
C4_CountersStep ==
  /\ DiskStore'.next_goal_id >= DiskStore.next_goal_id
  /\ DiskStore'.next_log_id >= DiskStore.next_log_id
  /\ (cache # <<>> /\ cache' # <<>>) =>
       /\ cache'[1].next_goal_id >= cache[1].next_goal_id
       /\ cache'[1].next_log_id >= cache[1].next_log_id

C4_CountersAbove ==
  /\ \A i \in 1..Len(goal_ids_assigned) : goal_ids_assigned[i] < DiskStore.next_goal_id
  /\ \A i \in 1..Len(log_ids_assigned) : log_ids_assigned[i] < DiskStore.next_log_id
  /\ cache # <<>> =>
       /\ \A i \in 1..Len(goal_ids_assigned) : goal_ids_assigned[i] < cache[1].next_goal_id
       /\ \A i \in 1..Len(log_ids_assigned) : log_ids_assigned[i] < cache[1].next_log_id
  /\ StrictlyIncreasing(goal_ids_assigned)
  /\ StrictlyIncreasing(log_ids_assigned)

C4_CountersMonotone == [](C4_CountersAbove) /\ [][C4_CountersStep]_vars

\* an id was handed out after the holder of an earlier one was deleted
C4_Witness ==
  /\ last_call.op = "add_log" /\ last_call.status = "ok"
  /\ log_ids_assigned = <<1, 2>>
  /\ Len(get_logs_result(0)) = 1

\* C5: add_log for a goal_id that is not in the store returns None, appends
\* nothing, leaves next_log_id (and the whole document) as it was and does
\* not write the file.
C5_AddLogMissingStep ==
  (/\ last_call'.op = "add_log"
   /\ ~load_data.raised
   /\ IndexFrom(load_data.store.goals, last_call'.goal_id, 1) = 0) =>
    /\ last_call'.status = "none"
    /\ load_data'.store = load_data.store
    /\ log_ids_assigned' = log_ids_assigned
    /\ UNCHANGED <<file_exists, file_text, file_mtime>>

C5_AddLogMissingGoal == [][C5_AddLogMissingStep]_vars

C5_Witness ==
  /\ last_call.op = "add_log" /\ last_call.status = "none"
  /\ Len(get_goals_result) > 0

\* C6 (as stated): an update_goal that found its goal replaces the supplied
\* fields, leaves every other field of that goal as it was, and the goal's
\* id and created_at are the same after the call as before.
C6_UpdateGoalStep ==
  LET gid == last_call'.goal_id
      kw == last_call'.kwargs
      i == IndexFrom(load_data.store.goals, gid, 1)
      before == load_data.store.goals[i]
      after == load_data'.store.goals[i]
  IN  (/\ last_call'.op = "update_goal" /\ last_call'.status = "ok"
       /\ ~load_data.raised
       /\ goal_exists(load_data.store, gid)) =>
        /\ ~load_data'.raised
        /\ Len(load_data'.store.goals) = Len(load_data.store.goals)
        /\ \A f \in DOMAIN before \ DOMAIN kw : after[f] = before[f]
        /\ \A f \in DOMAIN before \cap DOMAIN kw : after[f] = kw[f]
        /\ after.id = before.id
        /\ after.created_at = before.created_at

C6_UpdateGoalFrame == [][C6_UpdateGoalStep]_vars

\* C7 (as stated): whenever no worker is running, the file holds one
\* well-formed document with every goal and log the workers inserted, under
\* distinct ids, and each counter is 1 + the number of insertions.
C7_WorkersDoNotInterleave ==
  (\A w \in Workers : pc[w] \in {"idle", "failed"}) =>
    /\ file_exists => json_load(file_text) # <<>>
    /\ Len(DiskStore.goals) = Len(goal_ids_assigned)
    /\ Len(DiskStore.logs) = Len(log_ids_assigned)
    /\ Distinct(DiskStore.goals) /\ Distinct(DiskStore.logs)
    /\ DiskStore.next_goal_id = 1 + Len(goal_ids_assigned)
    /\ DiskStore.next_log_id = 1 + Len(log_ids_assigned)

\* C8: after a call that saved, every read of the process returns the
\* document just written, and the file holds exactly that document.
C8_ReadYourWrites ==
  Saved(last_call) =>
    /\ ~load_data.raised
    /\ file_exists /\ file_text = <<model_dump(load_data.store)>>
    /\ get_goals_result = validate_goals(DiskStore.goals)
    /\ get_logs_result(0) = validate_logs(DiskStore.logs)
    /\ get_config_result = <<DiskStore.config>>
    /\ \A g \in GoalIds :
         /\ get_goal_result(g) # <<>> <=> goal_exists(DiskStore, g)
         /\ get_logs_result(g) = validate_logs(logs_of(DiskStore.logs, g))

C8_Witness ==
  /\ Saved(last_call)
  /\ Len(get_goals_result) = 2 /\ Len(get_logs_result(0)) = 1
  /\ now > file_mtime

\* C9 (as stated): whatever changed the file, the next load returns the
\* file's current content, or a fresh document when the file is gone.
C9_NeverStale ==
  /\ ~file_exists => (~load_data.raised /\ load_data.store = DataStore)
  /\ (file_exists /\ model_validate(DiskStore) # <<>>) =>
       (~load_data.raised /\ <<load_data.store>> = model_validate(DiskStore))

\* C9 (amended): the next load returns the file's current content when the
\* file's modification time differs from the one recorded with the cached
\* document (or nothing is cached), and a fresh document when the file is gone.
C9_RevalidatedByMtime ==
  /\ ~file_exists => (~load_data.raised /\ load_data.store = DataStore)
  /\ (file_exists /\ model_validate(DiskStore) # <<>>
       /\ (cache = <<>> \/ file_mtime # cache_mtime)) =>
       (~load_data.raised /\ <<load_data.store>> = model_validate(DiskStore))

\* another writer changed the file after this process cached it
C9_Witness ==
  /\ cache # <<>> /\ Len(cache[1].goals) = 1
  /\ file_exists /\ file_mtime # cache_mtime
  /\ Len(DiskStore.goals) = 2

\* C10 (as stated): the cached document survives save and load unchanged.
C10_RoundTrip ==
  cache # <<>> => model_validate(model_dump(cache[1])) = cache

\* C11 (as stated): at every instant, also when the process stops in the
\* middle of a save, the file holds one complete document, never an empty
\* or partial one.
C11_SaveIsAtomic == file_exists => json_load(file_text) # <<>>

\* C12: while the data file is absent, load returns a document with no
\* goals, no logs, the default config and both counters at 1; the goal added
\* to an absent file has id 1, and a document whose counter stands at 2 holds
\* no goal (no log) but the first, with id 1; the file appears only with a
\* document some call changed, never by a load alone.
C12_FreshDocument ==
  /\ ~file_exists =>
       /\ ~load_data.raised
       /\ load_data.store.goals = <<>>
       /\ load_data.store.logs = <<>>
       /\ load_data.store.config =
            [reminder_frequency |-> "daily", preferred_time |-> "09:00",
             ai_personality |-> "balanced"]
       /\ load_data.store.next_goal_id = 1
       /\ load_data.store.next_log_id = 1
  /\ \A i \in 1..Len(DiskStore.goals) :
       /\ DiskStore.goals[i].id >= 1
       /\ DiskStore.next_goal_id = 2 => DiskStore.goals[i].id = 1
  /\ \A i \in 1..Len(DiskStore.logs) :
       /\ DiskStore.logs[i].id >= 1
       /\ DiskStore.next_log_id = 2 => DiskStore.logs[i].id = 1

C12_FileCreatedStep ==
  /\ (~file_exists /\ file_exists') =>
       /\ json_load(file_text') # <<>>
       /\ file_text'[1] # model_dump(load_data.store)
  /\ (~file_exists /\ file_exists' /\ last_call' # last_call
        /\ last_call'.op = "add_goal") =>
       /\ last_call'.status = "ok" /\ last_call'.goal_id = 1
       /\ Len(DiskStore'.goals) = 1 /\ DiskStore'.goals[1].id = 1

C12_LoadOfAbsentFile == [](C12_FreshDocument) /\ [][C12_FileCreatedStep]_vars

\* the file was removed while the process holds a document with a goal and
\* a log in its cache
C12_Witness ==
  /\ ~file_exists
  /\ cache # <<>> /\ cache[1].goals # <<>> /\ cache[1].logs # <<>>
  /\ goal_ids_assigned # <<>> /\ log_ids_assigned # <<>>

\* C13 (as stated): update_goal and remove_goal called with an id that is
\* not in the store return None and False without raising and leave the
\* document the process sees and the file exactly as they were; remove_goal
\* returns True exactly when a goal with the id was present; get_goal returns
\* None exactly for the ids that are not in the store.
C13_NotFoundStep ==
  LET gid == last_call'.goal_id
      present == IndexFrom(load_data.store.goals, gid, 1) # 0
  IN  (/\ last_call' # last_call
       /\ last_call'.op \in {"update_goal", "remove_goal"}
       /\ ~load_data.raised) =>
        /\ last_call'.status # "raised"
        /\ last_call'.op = "remove_goal" => (last_call'.status = "true" <=> present)
        /\ last_call'.op = "update_goal" => (last_call'.status = "ok" <=> present)
        /\ ~present =>
             /\ ~load_data'.raised
             /\ load_data'.store = load_data.store
             /\ UNCHANGED <<file_exists, file_text, file_mtime>>

C13_GetGoalNotFound ==
  \A g \in GoalIds :
    ~load_data.raised =>
      (get_goal_result(g) = <<>> <=> \A i \in 1..Len(load_data.store.goals) :
                                        load_data.store.goals[i].id # g)

C13_NotFoundLeavesStore == [](C13_GetGoalNotFound) /\ [][C13_NotFoundStep]_vars

\* C14 (as stated): a command given a goal id that is not in the store (log
\* --goal, edit, remove, analyze --goal, logs --goal) exits non-zero, and so
\* does log when the store has no goals; in both cases the file is unchanged.
C14_MissingGoalExitStep ==
  LET c == last_call'
      given == IF c.op \in {"edit", "remove"} THEN <<c.goal_id>>
               ELSE IF c.op \in {"log", "analyze", "logs"} THEN c.kwargs.goal
               ELSE <<>>
      missing == given # <<>> /\ ~goal_exists(DiskStore, given[1])
      no_goals == c.op = "log" /\ DiskStore.goals = <<>>
  IN  cache = <<>> /\ c.op \in {"log", "edit", "remove", "analyze", "logs"}
        /\ (missing \/ no_goals)
      => c.exit # 0 /\ UNCHANGED <<file_exists, file_text>>

C14_MissingGoalExit == [][C14_MissingGoalExitStep]_vars

\* C15 (as stated): res log with --goal ID does not consult the AI matcher,
\* and the entry it creates raises the log count of goal ID by one and of no
\* other goal; the AI matcher is consulted only when no id is given.
C15_ExplicitGoalStep ==
  LET c == last_call'
      given == c.kwargs.goal
  IN  cache = <<>> /\ c.op = "log"
      => /\ given # <<>> => ~c.ai
         /\ given # <<>> /\ c.status = "ok"
              => \A g \in 0..(MaxGoalId + 1) :
                   get_goal_progress_count(DiskStore', g)
                     = get_goal_progress_count(DiskStore, g)
                         + (IF g = given[1] THEN 1 ELSE 0)
         /\ c.ai => given = <<>>

C15_ExplicitGoalIsUsed == [][C15_ExplicitGoalStep]_vars

\* C16 (as stated): in AI-matched logging that got a reply, exactly one entry
\* is created and it references an existing goal; when the reply is
\* malformed, carries no goal id, or names an id that no goal has, the entry
\* goes to the first goal of the list.
C16_FallbackStep ==
  LET c == last_call'
      reply == c.kwargs.reply
      goals == DiskStore.goals
      logs == DiskStore'.logs
      names_goal == /\ reply.kind \in {"object", "fenced"}
                    /\ "goal_id" \in DOMAIN reply.data
                    /\ is_int(reply.data.goal_id)
                    /\ goal_exists(DiskStore, reply.data.goal_id[2])
  IN  cache = <<>> /\ c.op = "log" /\ c.ai /\ c.kwargs.key /\ c.kwargs.net
      => /\ c.status = "ok"
         /\ Len(logs) = Len(DiskStore.logs) + 1
         /\ goal_exists(DiskStore', logs[Len(logs)].goal_id)
         /\ logs[Len(logs)].goal_id
              = IF names_goal THEN reply.data.goal_id[2] ELSE goals[1].id

C16_FallbackToFirstGoal == [][C16_FallbackStep]_vars

\* C17 (as stated): when the reply to goal analysis is malformed (no JSON,
\* JSON that is not an object, an object without fields, a priority that is
\* not an integer or not in 1..10), res add creates the goal with category
\* "general", empty target, priority 3 and the default icon (the empty icon
\* of add_goal or the icon of "general"), and shows no crash and no error.
C17_DefaultsStep ==
  LET c == last_call'
      reply == c.kwargs.reply
      malformed == \/ reply.kind \in {"prose", "array"}
                   \/ DOMAIN reply.data = {}
                   \/ ~is_int(reply.data.priority)
                   \/ ~PriorityOk(reply.data.priority[2])
      goals == DiskStore'.goals
      goal == goals[Len(goals)]
  IN  cache = <<>> /\ c.op = "add" /\ ~c.kwargs.no_ai /\ c.kwargs.key /\ c.kwargs.net
        /\ ~load_data.raised /\ malformed
      => /\ c.status = "ok"
         /\ Len(goals) = Len(DiskStore.goals) + 1
         /\ goal.id = c.goal_id
         /\ goal.category = "general" /\ goal.target = "" /\ goal.priority = 3
         /\ goal.emoji \in {"", CATEGORY_ICONS["general"]}
         /\ c.shown \cap {"Traceback", "AI unavailable"} = {}

C17_MalformedReplyGivesDefaults == [][C17_DefaultsStep]_vars

\* C18 (as stated): a command that takes an AI-dependent path without the
\* API key shows the configuration error, a connectivity error never shows
\* that message, and the message is shown only by a command that took an
\* AI-dependent path without the key.
C18_MissingKeyStep ==
  LET c == last_call'
      config_error == "ANTHROPIC_API_KEY environment variable not set"
  IN  cache = <<>> /\ c.op \in {"add", "log", "logs", "analyze", "edit", "remove"}
      => /\ c.ai /\ ~c.kwargs.key => config_error \in c.shown
         /\ c.ai /\ c.kwargs.key /\ ~c.kwargs.net => config_error \notin c.shown
         /\ ~c.ai => config_error \notin c.shown

C18_MissingKeyIsReported == [][C18_MissingKeyStep]_vars

\* C19: whatever the file and the cache held, a run of --demo leaves in the
\* file and in the cache one document: the 10 missions in order with ids
\* 1..10 and priorities 1..10, 4 log entries with ids 1..4 for goal 1, and
\* the counters 11 and 5.
C19_DemoStep ==
  LET d == DiskStore'
      removed == file_exists /\ ~file_exists'
  IN  last_call'.op = "setup_demo" /\ ~removed
      => /\ last_call'.status = "ok"
         /\ file_exists' /\ json_load(file_text') # <<>>
         /\ Len(d.goals) = 10
         /\ \A i \in 1..10 : /\ d.goals[i].id = i
                             /\ d.goals[i].priority = i
                             /\ d.goals[i].title = missions[i].title
         /\ Len(d.logs) = 4
         /\ \A i \in 1..4 : d.logs[i].id = i /\ d.logs[i].goal_id = 1
         /\ d.next_goal_id = 11 /\ d.next_log_id = 5
         /\ cache' # <<>> /\ model_dump(cache'[1]) = d

C19_DemoReplacesStore == [][C19_DemoStep]_vars

\* --demo has run over a file with goals and logs while a document was cached
C19_Witness ==
  /\ last_call.op = "setup_demo"
  /\ Len(goal_ids_assigned) > 10 /\ Len(log_ids_assigned) > 4
  /\ Len(DiskStore.goals) = 10 /\ Len(DiskStore.logs) = 4

\* C20: the streak a refresh shows for a goal is 0 when the goal has no logs
\* or its most recent log day is before yesterday; otherwise the most recent
\* log day is today or yesterday and the streak is the number of consecutive
\* days with a log that end at it, each day counted once. Logs today,
\* yesterday and the day before give 3; logs only 3 days ago give 0.
C20_Streak ==
  last_call.op = "refresh_display" /\ last_call.status = "ok"
  => LET logs == logs_of(load_data.store.logs, 1)
         today == last_call.today
         days == { date(logs[i].timestamp) : i \in 1..Len(logs) }
         last == CHOOSE d \in days : \A e \in days : e <= d
         run == { n \in 1..Cardinality(days) : \A k \in 0..(n - 1) : (last - k) \in days }
         streak == last_call.streak[1]
     IN  /\ days = {} \/ last < today - 1 => streak = 0
         /\ days # {} /\ last >= today - 1
              => last \in {today, today - 1} /\ streak = Cardinality(run)
         /\ days = {today, today - 1, today - 2} => streak = 3
         /\ days = {today - 3} => streak = 0

\* a refresh showed a streak of 3 that ended yesterday
C20_Witness ==
  /\ last_call.op = "refresh_display"
  /\ last_call.streak[1] = 3
  /\ \A i \in 1..Len(load_data.store.logs) :
       date(load_data.store.logs[i].timestamp) < last_call.today

\* the sum of the values of logs, an absent value counting as 1
RECURSIVE values_total(_)
values_total(logs) ==
  IF logs = <<>> THEN 0
  ELSE (IF Head(logs).value = <<>> THEN 1 ELSE Head(logs).value[1])
       + values_total(Tail(logs))

\* C21 (as stated): the activity shown for a goal is 7 numbers, the k-th for
\* the day 7 - k days before today; each is the sum over the goal's logs of
\* that day of the log's value, 1 for a log without a value (so 0 for a log
\* whose value is 0); logs of other days, older or in the future, add nothing.
C21_RecentActivity ==
  last_call.op = "refresh_display" /\ last_call.status = "ok"
  => \A g \in DOMAIN last_call.sparkline :
       LET logs == logs_of(load_data.store.logs, g)
           values == last_call.sparkline[g]
       IN  /\ DOMAIN values = 1..7
           /\ \A k \in 1..7 :
                values[k] = values_total(
                  SelectSeq(logs, LAMBDA l :
                    date(l.timestamp) = last_call.today - (7 - k)))

\* C22: the progress shown for a goal with n logs is n / 10 when n <= 10 and
\* 1 when n >= 10; it is never above 1 and never below the progress of a
\* smaller count; 0 logs give 0, 5 give 1/2, 10 and 15 give 1.
C22_ProgressRatio ==
  last_call.op = "refresh_display" /\ last_call.status = "ok"
  => LET n == Len(logs_of(load_data.store.logs, 1))
         p == last_call.progress[1]
     IN  /\ p.den > 0
         /\ n <= 10 => p.num * 10 = n * p.den
         /\ n >= 10 => p.num = p.den
         /\ p.num <= p.den
         /\ \A m \in 0..n : progress_of(m).num * p.den <= p.num * progress_of(m).den
         /\ n = 0 => p.num = 0
         /\ n = 5 => 2 * p.num = p.den
         /\ n \in {10, 15} => p.num = p.den

\* a refresh showed the progress of a goal with 15 logs
C22_Witness ==
  /\ last_call.op = "refresh_display"
  /\ Len(logs_of(load_data.store.logs, 1)) = 15
  /\ last_call.progress[1] = [num |-> 1, den |-> 1]

C24_LogsStep ==
  LET before == get_logs_result(0)
      after == get_logs_result(0)'
      kept(l) == \E j \in 1..Len(after) : after[j] = l
      old(l) == \E i \in 1..Len(before) : before[i] = l
  IN  ~load_data.raised /\ ~load_data'.raised
      => /\ \A i \in 1..Len(before) :
              \/ kept(before[i])
              \/ /\ last_call'.op = "remove_goal"
                 /\ last_call'.status = "true"
                 /\ last_call'.goal_id = before[i].goal_id
         /\ \A i \in 1..Len(before), j \in 1..Len(after) :
              before[i].id = after[j].id => before[i] = after[j]
         /\ SelectSeq(after, old) = SelectSeq(before, kept)
         /\ \A j, k \in 1..Len(after) : j < k /\ old(after[k]) => old(after[j])
         /\ \A g \in GoalIds : get_logs_result(g)' = logs_of(after, g)

C24_LogsAppendOnly == [][C24_LogsStep]_vars

\* C25: res remove of a goal of the store without --force and with the
\* confirmation declined leaves the file as it was (the goal, its logs and
\* both counters); with --force or a confirmation the goal and all its logs
\* are gone from the file and the other goals and logs stay.
C25_RemoveStep ==
  LET c == last_call'
      d == DiskStore
      e == DiskStore'
  IN  cache = <<>> /\ c.op = "remove" /\ ~load_data.raised
        /\ goal_exists(d, c.goal_id)
      => IF ~c.kwargs.force /\ ~c.kwargs.confirm
         THEN /\ UNCHANGED <<file_exists, file_text, file_mtime>>
              /\ goal_exists(e, c.goal_id)
              /\ c.exit = 0
         ELSE /\ ~goal_exists(e, c.goal_id)
              /\ logs_of(e.logs, c.goal_id) = <<>>
              /\ e.goals = SelectSeq(d.goals, LAMBDA g : g.id # c.goal_id)
              /\ e.logs = SelectSeq(d.logs, LAMBDA l : l.goal_id # c.goal_id)
              /\ e.next_goal_id = d.next_goal_id /\ e.next_log_id = d.next_log_id
              /\ c.exit = 0

C25_RemoveAsksFirst == [][C25_RemoveStep]_vars

\* the removal of a goal that has a log entry was declined
C25_Witness ==
  /\ last_call.op = "remove" /\ last_call.shown = {"Cancelled."}
  /\ logs_of(DiskStore.logs, last_call.goal_id) # <<>>

\* C26 (as stated): res edit of a goal of the store with any of --title,
\* --category, --target, --priority and any values, an empty text and a
\* priority of 0 included, leaves the goal with exactly the supplied values
\* in those fields and its previous values in all others.
C26_EditStep ==
  LET c == last_call'
      i == IndexFrom(DiskStore.goals, c.goal_id, 1)
      before == DiskStore.goals[i]
      after == DiskStore'.goals[i]
  IN  cache = <<>> /\ c.op = "edit" /\ ~load_data.raised /\ i # 0
      => /\ Len(DiskStore'.goals) = Len(DiskStore.goals)
         /\ \A f \in DOMAIN before :
              after[f] = IF f \in DOMAIN c.kwargs /\ c.kwargs[f] # <<>>
                         THEN c.kwargs[f][1]
                         ELSE before[f]

C26_EditIsPartialUpdate == [][C26_EditStep]_vars

\* C27 (as stated): whatever commands have run, every goal in the file has a
\* priority between 1 and 10 and the file is a document that load_data in a
\* new process parses and validates.
C27_FileLoads ==
  file_exists
  => /\ json_load(file_text) # <<>>
     /\ \A i \in 1..Len(DiskStore.goals) : PriorityOk(DiskStore.goals[i].priority)
     /\ model_validate(DiskStore) # <<>>

\* C28 (as stated): a worker of the dashboard inserts at most once for one
\* submission, whatever the AI call, the store write and the display calls
\* after it did, and a worker that ends without an error has inserted
\* exactly once (a log submitted while there is no goal is not inserted).
C28_OnceStep ==
  \A w \in Workers :
    /\ loc'[w].done <= 1
    /\ pc[w] = "refresh" /\ pc'[w] = "idle" /\ goal_ids_assigned # <<>>
         => loc[w].done = 1

C28_InsertedOnce == [][C28_OnceStep]_vars

\* C29 (as stated): after a call whose write failed, and for as long as the
\* process runs, load_data gives the document it gave to the failed call:
\* the same goals, logs and config and both counters at their old values.
C29_FailedWriteChangesNothing ==
  last_call.status = "write_failed"
    => ~load_data.raised /\ load_data.store = last_call.before

\* the goals (logs) of a document that do not carry the id
goals_without(store, goal_id) == SelectSeq(store.goals, LAMBDA g : g.id # goal_id)

logs_without(store, goal_id) == SelectSeq(store.logs, LAMBDA l : l.goal_id # goal_id)

\* C30: a mutation aimed at one goal changes nothing else. A step of
\* update_goal(id) leaves every goal that had another id as it was and where
\* it was; a step of remove_goal(id) leaves the goals of other ids as they
\* were and in their order; both leave the logs of other goals, the config
\* and both counters. add_log leaves goals, config and next_goal_id;
\* update_config leaves goals, logs and both counters. The documents compared
\* are the one load_data gives before the step and the one it gives after.
C30_FrameStep ==
  LET pre == load_data.store
      post == load_data'.store
      op == last_call'.op
      id == last_call'.goal_id
  IN  /\ op = "update_goal" =>
           /\ Len(post.goals) = Len(pre.goals)
           /\ \A i \in 1..Len(pre.goals) :
                pre.goals[i].id # id => post.goals[i] = pre.goals[i]
      /\ op = "remove_goal" =>
           goals_without(post, id) = goals_without(pre, id)
      /\ op \in {"update_goal", "remove_goal"} =>
           /\ logs_without(post, id) = logs_without(pre, id)
           /\ post.config = pre.config
           /\ post.next_goal_id = pre.next_goal_id
           /\ post.next_log_id = pre.next_log_id
      /\ op = "add_log" =>
           /\ post.goals = pre.goals
           /\ post.config = pre.config
           /\ post.next_goal_id = pre.next_goal_id
      /\ op = "update_config" =>
           /\ post.goals = pre.goals
           /\ post.logs = pre.logs
           /\ post.next_goal_id = pre.next_goal_id
           /\ post.next_log_id = pre.next_log_id

C30_Frame == [][C30_FrameStep]_vars

\* an update of one of two goals has been saved while the other goal has a log
C30_Witness ==
  /\ last_call.op = "update_goal" /\ last_call.status = "ok"
  /\ ~load_data.raised
  /\ Len(load_data.store.goals) = 2
  /\ \E i \in 1..Len(load_data.store.logs) :
       load_data.store.logs[i].goal_id # last_call.goal_id
====
